---- MODULE Spec2Model ----
(***************************************************************************)
(* A model of the secure plugin runtime of Evogoatml/agent.                *)
(*                                                                         *)
(*   Part I   Secure Module Registry   src/core/orchestrator_secure.py     *)
(*   Part II  Secret Store             src/core/key_store.py               *)
(*   Part III Secret Store, the write  src/core/key_store.py (_save)       *)
(*   Part IV  Layered Cipher Gateway   src/core/zero_trust_gateway.py      *)
(*   Part V   Task Queue               src/core/task_queue.py              *)
(*   Part VI  Event Bus                src/core/event_bus.py               *)
(*   Part VII Scheduler                src/core/scheduler.py               *)
(*   Part VIII Source Watcher          src/core/auto_watcher.py            *)
(*   Part IX  Registry, concurrent calls src/core/orchestrator_secure.py   *)
(*   Part X   Secret Store, two writers  src/core/key_store.py            *)
(*   Part XI  Event Bus, the lock       src/core/event_bus.py               *)
(*   Part XII Runtime, source change    src/interface/rest_api.py           *)
(*                                                                         *)
(* Each part has its own specification (SpecOrch, SpecKeyStore): the       *)
(* components share no state in the source.                                *)
(***************************************************************************)
EXTENDS Integers, Sequences, FiniteSets, TLC

VARIABLES
    registry,   \* OrchestratorSecure.registry : name -> {path, signature}
    log_file,   \* contents of logs/orchestrator_events.log, one entry per line
    lastCall,   \* the most recent call on the orchestrator and how it ended
    cache,      \* KeyStore._cache : name -> value
    loaded,     \* KeyStore._loaded
    keyfile,    \* the file at KeyStore.path (data/api_keys.enc)
    parent,     \* whether the directory of KeyStore.path exists
    environ,    \* os.environ.get("KEYSTORE_PASSPHRASE")
    lastOp,     \* the most recent call on the key store and how it ended
    lastSet,    \* history: the most recent set that completed, and its blob
    tampers,    \* history: alterations of the file since it was last written
    tmpfile,    \* the file at KeyStore.path + ".tmp"
    saving,     \* the set in progress, where _save is taken step by step
    gwKeys,     \* ZeroTrustGateway.aes_key and .twofish_key of the instance
    wire,       \* a sealed packet on its way, with the history of its seal
    lastGw,     \* the most recent call on the gateway and how it ended
    heap,       \* TaskQueue.q.queue: the list queue.PriorityQueue keeps as a heap
    unfinished, \* TaskQueue.q.unfinished_tasks
    shutdown_flag, \* TaskQueue.shutdown_flag
    threads,    \* each worker thread: where it is in _worker, and its task
    executed,   \* history: the tasks whose callable was called, in order
    now,        \* time.time()
    nextId,     \* history: the number of calls of put so far
    lastPut,    \* the most recent call of put and how it ended
    sub,        \* EventBus._sub : topic -> the list of its handlers
    pub,        \* the publish in progress, or the last one: where it is
    calls,      \* history: the handlers that publish has called, in order
    subLog,     \* history: the calls of subscribe, in order
    jobs,       \* Scheduler.jobs : name -> Job, in the order of the dict
    jobObjs,    \* the Job objects made so far, with the history of each
    clock,      \* time.time() as the scheduler reads it, in seconds
    loop,       \* the thread of Scheduler._loop: where it is
    sched_stop, \* Scheduler._stop
    fs,         \* the files under the watched paths: modification times
    mtimes,     \* AutoWatcher._mtimes
    watch,      \* the thread of AutoWatcher._loop: where it is
    watch_stop, \* AutoWatcher._stop
    lastPoll,   \* history: the most recent poll and what it did
    dicts,      \* the dict objects register has built (lines 30-34), by reference
    regRefs,    \* OrchestratorSecure.registry as the threads share it: name -> reference
    regLog,     \* history: the records register stored, in order
    writer,     \* the thread in register or auto_discover: where it is
    reader,     \* the thread in execute: where it is, and its locals
    lastRead,   \* history: the most recent execute or list_modules of the reader
    inodes,     \* the files of the store's directory, by inode: their bytes
    links,      \* the directory entries at KeyStore.path and at path + ".tmp"
    mem,        \* KeyStore._cache as two threads share it
    setters,    \* each thread in set: where it is, its blob and its open file
    fetched,    \* history: the bytes the most recent load of another process read
    lock,       \* EventBus._lock: free, or the call that holds it
    frames,     \* the calls of publish and subscribe on the stack of the publishing thread
    other,      \* the call of subscribe of another thread: where it is
    finished,   \* history: the calls of publish that have ended, with the handlers called
    hook,       \* on_code_change in the thread of the watcher: where it is, and counts
    lastEvent   \* history: the most recent event published on the bus by on_code_change

orchVars == <<registry, log_file, lastCall>>

ksVars == <<cache, loaded, keyfile, parent, environ, lastOp, lastSet, tampers>>

saveVars == <<tmpfile, saving>>

gwVars == <<gwKeys, wire, lastGw>>

tqVars == <<heap, unfinished, shutdown_flag, threads, executed, now, nextId,
            lastPut>>

busVars == <<sub, pub, calls, subLog>>

schedVars == <<jobs, jobObjs, clock, loop, sched_stop>>

watchVars == <<fs, mtimes, watch, watch_stop, lastPoll>>

raceVars == <<dicts, regRefs, regLog, writer, reader, lastRead>>

sharedVars == <<inodes, links, mem, setters, fetched>>

lockVars == <<lock, frames, other, finished>>

runtimeVars == <<hook, lastEvent>>

vars == <<registry, log_file, lastCall,
          cache, loaded, keyfile, parent, environ, lastOp, lastSet, tampers,
          tmpfile, saving, gwKeys, wire, lastGw,
          heap, unfinished, shutdown_flag, threads, executed, now, nextId,
          lastPut, sub, pub, calls, subLog,
          jobs, jobObjs, clock, loop, sched_stop,
          fs, mtimes, watch, watch_stop, lastPoll,
          dicts, regRefs, regLog, writer, reader, lastRead,
          inodes, links, mem, setters, fetched,
          lock, frames, other, finished,
          hook, lastEvent>>

\* What a call on the registry, and what a call on the key store, leaves alone.
notOrchVars ==
    <<ksVars, saveVars, gwVars, tqVars, busVars, schedVars, watchVars,
      raceVars,
      sharedVars,
      lockVars,
      runtimeVars>>

\* What a step of one thread on the shared registry leaves alone.
notOrchRaceVars ==
    <<ksVars, saveVars, gwVars, tqVars, busVars, schedVars, watchVars,
      sharedVars,
      lockVars,
      runtimeVars>>

\* What a step on the bus and its lock leaves alone.
notBusLockVars ==
    <<orchVars, ksVars, saveVars, gwVars, tqVars, schedVars, watchVars,
      raceVars, sharedVars,
      runtimeVars>>

notKsVars ==
    <<orchVars, saveVars, gwVars, tqVars, busVars, schedVars, watchVars,
      raceVars,
      sharedVars,
      lockVars,
      runtimeVars>>

notSaveVars ==
    <<orchVars, gwVars, tqVars, busVars, schedVars, watchVars,
      raceVars,
      sharedVars,
      lockVars,
      runtimeVars>>

notGwVars ==
    <<orchVars, ksVars, saveVars, tqVars, busVars, schedVars, watchVars,
      raceVars,
      sharedVars,
      lockVars,
      runtimeVars>>

notTqVars ==
    <<orchVars, ksVars, saveVars, gwVars, busVars, schedVars, watchVars,
      raceVars,
      sharedVars,
      lockVars,
      runtimeVars>>

notBusVars ==
    <<orchVars, ksVars, saveVars, gwVars, tqVars, schedVars, watchVars,
      raceVars,
      sharedVars,
      lockVars,
      runtimeVars>>

notSchedVars ==
    <<orchVars, ksVars, saveVars, gwVars, tqVars, busVars, watchVars,
      raceVars,
      sharedVars,
      lockVars,
      runtimeVars>>

notWatchVars ==
    <<orchVars, ksVars, saveVars, gwVars, tqVars, busVars, schedVars,
      raceVars,
      sharedVars,
      lockVars,
      runtimeVars>>

notRaceVars ==
    <<orchVars, ksVars, saveVars, gwVars, tqVars, busVars, schedVars,
      watchVars,
      sharedVars,
      lockVars,
      runtimeVars>>

notSharedVars ==
    <<orchVars, ksVars, saveVars, gwVars, tqVars, busVars, schedVars,
      watchVars, raceVars,
      lockVars,
      runtimeVars>>

notLockVars ==
    <<orchVars, ksVars, saveVars, gwVars, tqVars, busVars, schedVars,
      watchVars, raceVars, sharedVars,
      runtimeVars>>

\* What a step of on_code_change leaves alone.
notRuntimeVars ==
    <<ksVars, saveVars, gwVars, tqVars, busVars, schedVars, raceVars,
      sharedVars, lockVars>>

None == "None"

(***************************************************************************)
(* Bounds of the model.                                                    *)
(***************************************************************************)
MaxLog == 3      \* lines the event log may hold
MaxTamper == 1   \* alterations an adversary makes to one written blob
MaxPuts == 4     \* calls of put on the task queue
MaxNow == 2      \* readings the clock of the task queue takes
MaxSubs == 3     \* calls of subscribe on the event bus
MaxJobs == 2     \* calls of add on the scheduler
MaxClock == 5    \* seconds the clock of the scheduler runs
MaxMtime == 2    \* modification times a watched file may take
MaxDepth == 2    \* calls of publish on the stack of one thread
MaxPublishes == 2 \* calls of publish a thread makes on the locked bus
MaxChanges == 2  \* changes the watcher of the runtime detects

\* threading.Event.is_set(): the flag a loop reads at its loop condition.
MutNeverSet(flag) == FALSE

is_set(flag) == flag

(***************************************************************************)
(* Part I.  The world the registry sees.                                   *)
(***************************************************************************)

\* A directory entry, split where the code splits it: file[:-3] and ".py".
PyFile(stem) == [stem |-> stem, ext |-> ".py"]

\* The plugin modules that may or may not be present in each plugin folder.
DirUniverse ==
    [plugins |-> {PyFile("pricer"), PyFile("broken")},
     skills  |-> {PyFile("pricer"), PyFile("broken")}]

\* The entries each folder always holds: none of them is a plugin module.
DirFixed ==
    [plugins |-> {PyFile("__init__")},
     skills  |-> {[stem |-> "notes", ext |-> ".txt"]}]

Folders == DOMAIN DirUniverse

\* file.startswith("__")
StartsWithDunder(file) == file.stem \in {"__init__", "__main__"}

\* file.endswith(".py")
EndsWithPy(file) == file.ext = ".py"

\* f"{folder}.{name}" : a dotted import path.
DottedPath(folder, name) == <<folder, name>>

Paths == {DottedPath("plugins", "pricer"), DottedPath("skills", "pricer"),
          DottedPath("plugins", "broken"), DottedPath("skills", "broken")}

Names == {"pricer", "broken"}

\* importlib.import_module(path): the paths whose import raises.
ImportFails == {DottedPath("plugins", "broken"), DottedPath("skills", "broken")}

import_module(path) == IF path \in ImportFails THEN "ImportError" ELSE "ok"

\* The attributes of each importable module: a function that returns, a
\* function that raises, a value that is not callable; anything else is absent.
ModuleAttr(path, func_name) ==
    CASE path = DottedPath("plugins", "pricer") /\ func_name = "quote"   -> "function"
      [] path = DottedPath("plugins", "pricer") /\ func_name = "boom"    -> "raising"
      [] path = DottedPath("plugins", "pricer") /\ func_name = "VERSION" -> "value"
      [] path = DottedPath("skills", "pricer")  /\ func_name = "quote"   -> "function"
      [] OTHER -> "absent"

FuncNames == {"quote", "boom", "VERSION", "missing"}
Args == {"BTC", "ETH"}

\* callable(getattr(module, func_name, None))
MutCallable(path, func_name) == ModuleAttr(path, func_name) # "absent"

callable(path, func_name) == ModuleAttr(path, func_name) \in {"function", "raising"}

\* What func(*args) does: the value it returns, or the exception it raises.
Call(path, func_name, arg) ==
    IF ModuleAttr(path, func_name) = "function"
    THEN [kind |-> "return", value |-> <<"price", path, arg>>]
    ELSE [kind |-> "raise", value |-> <<"boom", path, arg>>]

(***************************************************************************)
(* sign / verify (lines 71-75): SHA-256 of the path, hex encoded.  The     *)
(* digest is modelled as collision free: a tagged copy of its input.       *)
(***************************************************************************)
sign(data) == <<"sha256", data>>

MutVerify(data, signature) == TRUE

verify(data, signature) == sign(data) = signature

\* Signatures a stored record can be made to carry.
Signatures == {sign(p) : p \in Paths} \cup {sign(DottedPath("forged", "digest"))}

(***************************************************************************)
(* The registry operations, as functions of the state they read.  Each     *)
(* returns the new registry (or the outcome), the lines it logs and        *)
(* whether an exception leaves it.  The                                    *)
(* utcnow() readings (the record's timestamp, the prefix of a log line)    *)
(* and the names quoted in a log message are written and never read by the *)
(* program: a log line is modelled by its level and the event it reports.  *)
(***************************************************************************)
EmptyMap == [n \in {} |-> None]

Put(map, key, value) ==
    [n \in (DOMAIN map) \cup {key} |-> IF n = key THEN value ELSE map[n]]

\* _log (lines 100-104): one line "<utcnow> :: <LEVEL> :: <message>".
LogLine(message, error) ==
    [level |-> IF error THEN "ERROR" ELSE "INFO", message |-> message]

\* register (lines 27-37): the import failure is caught (line 36).
MutRegisterNoCatch(reg, name, path) ==
    IF import_module(path) = "ok"
    THEN [registry |-> Put(reg, name, [path |-> path, signature |-> sign(path)]),
          lines |-> <<LogLine("Registered", FALSE)>>, raised |-> FALSE]
    ELSE [registry |-> reg, lines |-> <<>>, raised |-> TRUE]

register(reg, name, path) ==
    IF import_module(path) = "ok"
    THEN [registry |-> Put(reg, name, [path |-> path, signature |-> sign(path)]),
          lines |-> <<LogLine("Registered", FALSE)>>, raised |-> FALSE]
    ELSE [registry |-> reg,
          lines |-> <<LogLine("Failed to register", TRUE)>>, raised |-> FALSE]

\* The inner loop of auto_discover (lines 45-49) over one folder's listing.
\* An exception that leaves register ends the loops.
RECURSIVE ScanFiles(_, _, _)
ScanFiles(acc, folder, files) ==
    IF files = <<>> \/ acc.raised THEN acc
    ELSE LET file == Head(files)
             next == IF EndsWithPy(file) /\ ~StartsWithDunder(file)
                     THEN LET r == register(acc.registry, file.stem,
                                            DottedPath(folder, file.stem))
                          IN  [registry |-> r.registry,
                               lines |-> acc.lines \o r.lines,
                               raised |-> r.raised]
                     ELSE acc
         IN  ScanFiles(next, folder, Tail(files))

\* The outer loop of auto_discover (lines 42-44): listdir[folder] is what
\* os.listdir returns, in its order, for a folder that is a directory.
RECURSIVE DiscoverFolders(_, _, _)
DiscoverFolders(acc, folders, listdir) ==
    IF folders = <<>> \/ acc.raised THEN acc
    ELSE LET folder == Head(folders)
             next == IF folder \notin DOMAIN listdir
                     THEN acc
                     ELSE ScanFiles(acc, folder, listdir[folder])
         IN  DiscoverFolders(next, Tail(folders), listdir)

\* auto_discover (lines 39-49).
auto_discover(reg, folders, listdir) ==
    DiscoverFolders([registry |-> reg, lines |-> <<>>, raised |-> FALSE],
                    IF folders.given THEN folders.value ELSE <<"plugins", "skills">>,
                    listdir)

\* A call that returns nothing.
NoResult == <<>>

\* The ways execute ends.
Raised(error) ==
    [outcome |-> "raised", error |-> error, result |-> NoResult,
     invoked |-> <<>>, lines |-> <<>>]

\* The record execute looks up (line 54): registry.get(module_name).
MutLookupFallback(reg, module_name) ==
    IF module_name \in DOMAIN reg
    THEN [found |-> TRUE, info |-> reg[module_name]]
    ELSE [found |-> TRUE,
          info |-> [path |-> DottedPath("plugins", module_name),
                    signature |-> sign(DottedPath("plugins", module_name))]]

Lookup(reg, module_name) ==
    IF module_name \in DOMAIN reg
    THEN [found |-> TRUE, info |-> reg[module_name]]
    ELSE [found |-> FALSE,
          info |-> [path |-> DottedPath(None, None),
                    signature |-> sign(DottedPath(None, None))]]

\* The call itself (line 66) and what execute hands back (line 67).
MutInvokeDropsResult(path, func_name, arg) ==
    [outcome |-> "returned", error |-> None, result |-> NoResult,
     invoked |-> << <<path, func_name, arg>> >>,
     lines   |-> <<LogLine("Executing", FALSE)>>]

Invoke(path, func_name, arg) ==
    LET r == Call(path, func_name, arg)
    IN  [outcome |-> IF r.kind = "return" THEN "returned" ELSE "raised",
         error   |-> IF r.kind = "return" THEN None ELSE "function raised",
         result  |-> IF r.kind = "return" THEN r.value ELSE NoResult,
         invoked |-> << <<path, func_name, arg>> >>,
         lines   |-> <<LogLine("Executing", FALSE)>>]

\* execute (lines 53-67).
execute(reg, module_name, func_name, arg) ==
    LET got == Lookup(reg, module_name)
    IN  IF ~got.found
        THEN Raised("Module not registered")
        ELSE LET info == got.info
                 path == info.path
                 signature == info.signature
             IN  IF ~verify(path, signature)
                 THEN Raised("Signature mismatch")
                 ELSE IF import_module(path) # "ok"
                 THEN Raised("ImportError")
                 ELSE IF ~callable(path, func_name)
                 THEN Raised("Function not found")
                 ELSE Invoke(path, func_name, arg)

\* list_modules (lines 93-94).
list_modules(reg) == DOMAIN reg

\* inspect.getmembers(module, inspect.isfunction): the names of the functions
\* of the module, sorted.
FuncOrder == <<"VERSION", "boom", "missing", "quote">>

getmembers(path) == SelectSeq(FuncOrder, LAMBDA f : callable(path, f))

\* inspect_module (lines 96-98): self.registry[module_name] raises KeyError
\* for a name the registry does not hold.
inspect_module(reg, module_name) ==
    IF module_name \notin DOMAIN reg
    THEN Raised("KeyError")
    ELSE IF import_module(reg[module_name].path) # "ok"
    THEN Raised("ImportError")
    ELSE [outcome |-> "returned", error |-> None,
          result |-> getmembers(reg[module_name].path),
          invoked |-> <<>>, lines |-> <<>>]

(***************************************************************************)
(* Part I.  The state machine of the registry.                             *)
(***************************************************************************)
CallRec(op, name, target, arg, outcome, error, result, invoked) ==
    [op |-> op, name |-> name, target |-> target, arg |-> arg,
     outcome |-> outcome, error |-> error, result |-> result,
     invoked |-> invoked]

\* A step of the environment is no call on the orchestrator.
NoCall == CallRec("none", None, None, None, None, None, NoResult, <<>>)

\* The plugin folders as a scan may find them: every folder holds its fixed
\* entries and any of its possible modules.
Disks == {[f \in Folders |-> DirFixed[f] \cup pick[f]] :
            pick \in {d \in [Folders -> SUBSET UNION {DirUniverse[f] : f \in Folders}] :
                        \A f \in Folders : d[f] \subseteq DirUniverse[f]}}

Range(seq) == {seq[i] : i \in DOMAIN seq}

\* The orders in which os.listdir may return the entries of a set.
Perms(S) ==
    {p \in [1..Cardinality(S) -> S] :
        \A i, j \in 1..Cardinality(S) : p[i] = p[j] => i = j}

Listings(disk) == {l \in [DOMAIN disk -> UNION {Perms(disk[d]) : d \in DOMAIN disk}] :
                     \A d \in DOMAIN disk : l[d] \in Perms(disk[d])}

\* The folders arguments auto_discover is called with; "cache" is no directory.
Folders_(value) == [given |-> TRUE, value |-> value]

FoldersDefault == [given |-> FALSE, value |-> <<>>]

FolderArgs == {FoldersDefault, Folders_(<<"cache", "skills", "plugins">>)}

InitOrch ==
    /\ registry = EmptyMap
    /\ log_file = <<>>
    /\ lastCall = NoCall

Register(name, path) ==
    LET r == register(registry, name, path)
    IN  /\ Len(log_file) + Len(r.lines) <= MaxLog
        /\ registry' = r.registry
        /\ log_file' = log_file \o r.lines
        /\ lastCall' = CallRec("register", name, path, None,
                               IF r.raised THEN "raised" ELSE "returned", None,
                               NoResult, <<>>)
        /\ UNCHANGED notOrchVars

\* The directory contents are read at the call: they are an input of it.
AutoDiscover(folders, listdir) ==
    LET r == auto_discover(registry, folders, listdir)
    IN  /\ Len(log_file) + Len(r.lines) <= MaxLog
        /\ registry' = r.registry
        /\ log_file' = log_file \o r.lines
        /\ lastCall' = CallRec("auto_discover", None, folders,
                               [f \in DOMAIN listdir |-> Range(listdir[f])],
                               IF r.raised THEN "raised" ELSE "returned", None,
                               NoResult, <<>>)
        /\ UNCHANGED notOrchVars

Execute(module_name, func_name, arg) ==
    LET r == execute(registry, module_name, func_name, arg)
    IN  /\ Len(log_file) + Len(r.lines) <= MaxLog
        /\ log_file' = log_file \o r.lines
        /\ lastCall' = CallRec("execute", module_name, func_name, arg, r.outcome,
                               r.error, r.result, r.invoked)
        /\ UNCHANGED <<registry, notOrchVars>>

ListModules ==
    /\ lastCall' = CallRec("list_modules", None, None, None, "returned", None,
                           list_modules(registry), <<>>)
    /\ UNCHANGED <<registry, log_file, notOrchVars>>

InspectModule(module_name) ==
    LET r == inspect_module(registry, module_name)
    IN  /\ lastCall' = CallRec("inspect_module", module_name, None, None,
                               r.outcome, r.error, r.result, <<>>)
        /\ UNCHANGED <<registry, log_file, notOrchVars>>

\* The environment: a stored record is tampered with between registration
\* and use.
TamperSignature(name, signature) ==
    /\ name \in DOMAIN registry
    /\ signature # registry[name].signature
    /\ registry' = [registry EXCEPT ![name].signature = signature]
    /\ lastCall' = NoCall
    /\ UNCHANGED <<log_file, notOrchVars>>

TamperPath(name, path) ==
    /\ name \in DOMAIN registry
    /\ path # registry[name].path
    /\ registry' = [registry EXCEPT ![name].path = path]
    /\ lastCall' = NoCall
    /\ UNCHANGED <<log_file, notOrchVars>>

(***************************************************************************)
(* Part II.  The Secret Store: src/core/key_store.py.                      *)
(*                                                                         *)
(* The cryptography is modelled symbolically.  scrypt is a collision free  *)
(* function of (passphrase, salt).  AES-GCM encrypts in counter mode: the  *)
(* ciphertext is the plaintext combined with a key stream fixed by (key,   *)
(* nonce), so any ciphertext decrypts, under the key and nonce it was made *)
(* with, to the plaintext it carries, and under any other key or nonce to  *)
(* garbage; the tag is a MAC of (nonce, ciphertext) under the key, which   *)
(* nobody without the key can produce.                                     *)
(***************************************************************************)
SecretNames == {"HF_KEY", "RAPIDAPI_KEY"}
NameOrder == <<"HF_KEY", "RAPIDAPI_KEY">>
SecretValues == {"v1", "v2"}
Passphrases == {"p1", "p2"}
Empty == ""

\* The passphrase arguments of load/get/set, and the values of the
\* KEYSTORE_PASSPHRASE variable (None: not set).
PassArgs == {None, Empty} \cup Passphrases
EnvValues == {None, "p1"}

\* secrets.token_bytes(16) and secrets.token_bytes(12).
Salts == {"s1"}
Nonces == {"n1"}

\* json.dumps(self._cache).encode("utf-8"): the members of the object, one
\* (name, value) pair each.
RECURSIVE DumpMembers(_, _)
DumpMembers(map, names) ==
    IF names = <<>> THEN <<>>
    ELSE (IF Head(names) \in DOMAIN map
          THEN << <<Head(names), map[Head(names)]>> >>
          ELSE <<>>) \o DumpMembers(map, Tail(names))

MutDumps(map) ==
    [wellformed |-> TRUE,
     members |-> IF DumpMembers(map, NameOrder) = <<>> THEN <<>>
                 ELSE Tail(DumpMembers(map, NameOrder))]

Dumps(map) == [wellformed |-> TRUE, members |-> DumpMembers(map, NameOrder)]

\* json.loads(plain.decode("utf-8")): the object the text denotes; a later
\* member of the same name replaces an earlier one.
RECURSIVE LoadMembers(_, _)
LoadMembers(map, members) ==
    IF members = <<>> THEN map
    ELSE LoadMembers(Put(map, Head(members)[1], Head(members)[2]), Tail(members))

Loads(text) == LoadMembers(EmptyMap, text.members)

\* Bytes that are no JSON text.
Garbage == [wellformed |-> FALSE, members |-> <<>>]

\* _kdf (lines 17-20).
_kdf(passphrase, salt) == <<passphrase, salt>>

\* AES-GCM.
Encrypt(key, nonce, data) == [key |-> key, nonce |-> nonce, data |-> data]

Decrypt(key, nonce, ct) ==
    IF ct.key = key /\ ct.nonce = nonce THEN ct.data ELSE Garbage

Tag(key, nonce, ct) == [key |-> key, nonce |-> nonce, ct |-> ct]

_AKS_MAGIC == "AKS1"

\* _enc (lines 22-29): the blob, by its fields.
_enc(passphrase, data, salt, nonce) ==
    LET key == _kdf(passphrase, salt)
        ct  == Encrypt(key, nonce, data)
    IN  [exists |-> TRUE, magic |-> _AKS_MAGIC, salt |-> salt, nonce |-> nonce,
         ct |-> ct, tag |-> Tag(key, nonce, ct)]

\* No file at the path.
Absent ==
    [exists |-> FALSE, magic |-> Empty, salt |-> Empty, nonce |-> Empty,
     ct |-> Encrypt(_kdf(Empty, Empty), Empty, Garbage),
     tag |-> Tag(_kdf(Empty, Empty), Empty,
                 Encrypt(_kdf(Empty, Empty), Empty, Garbage))]

\* _dec (lines 31-41): the plaintext, or the ValueError raised.
MutDecNoTag(passphrase, blob) ==
    IF blob.magic # _AKS_MAGIC
    THEN [error |-> "Invalid keystore file.", plain |-> Garbage]
    ELSE [error |-> None,
          plain |-> Decrypt(_kdf(passphrase, blob.salt), blob.nonce, blob.ct)]

_dec(passphrase, blob) ==
    IF blob.magic # _AKS_MAGIC
    THEN [error |-> "Invalid keystore file.", plain |-> Garbage]
    ELSE LET salt  == blob.salt
             nonce == blob.nonce
             tag   == blob.tag
             ct    == blob.ct
             key   == _kdf(passphrase, salt)
         IN  IF tag # Tag(key, nonce, ct)
             THEN [error |-> "MAC check failed", plain |-> Garbage]
             ELSE [error |-> None, plain |-> Decrypt(key, nonce, ct)]

\* passphrase = os.environ.get("KEYSTORE_PASSPHRASE") when none is given
\* (lines 50-51, 77-78).
Resolve(passphrase, env) == IF passphrase = None THEN env ELSE passphrase

\* "not passphrase" (lines 52, 79).
Falsy(passphrase) == passphrase \in {None, Empty}

\* What load leaves behind: the cache, the flag, the directory, how it ended
\* and whether it read the file.
LoadResult(c, l, dir, outcome, error, readFile) ==
    [cache |-> c, loaded |-> l, parent |-> dir, outcome |-> outcome,
     error |-> error, readFile |-> readFile]

\* load (lines 47-65).
MutLoadAlways(c, l, f, dir, env, passphrase) ==
    LET p == Resolve(passphrase, env)
    IN  IF Falsy(p) \/ ~f.exists
        THEN LoadResult(EmptyMap, TRUE, dir, "returned", None, FALSE)
        ELSE LET d == _dec(p, f)
             IN  IF d.error # None \/ ~d.plain.wellformed
                 THEN LoadResult(c, l, dir, "raised", "ValueError", TRUE)
                 ELSE LoadResult(Loads(d.plain), TRUE, dir, "returned", None, TRUE)

MutLoadSwallows(c, l, f, dir, env, passphrase) ==
    IF l
    THEN LoadResult(c, l, dir, "returned", None, FALSE)
    ELSE LET p == Resolve(passphrase, env)
         IN  IF Falsy(p)
             THEN LoadResult(EmptyMap, TRUE, dir, "returned", None, FALSE)
             ELSE IF ~f.exists
             THEN LoadResult(EmptyMap, TRUE, TRUE, "returned", None, FALSE)
             ELSE LET d == _dec(p, f)
                  IN  IF d.error # None \/ ~d.plain.wellformed
                      THEN LoadResult(EmptyMap, TRUE, dir, "returned", None, TRUE)
                      ELSE LoadResult(Loads(d.plain), TRUE, dir, "returned",
                                      None, TRUE)

load(c, l, f, dir, env, passphrase) ==
    IF l
    THEN LoadResult(c, l, dir, "returned", None, FALSE)
    ELSE LET p == Resolve(passphrase, env)
         IN  IF Falsy(p)
             THEN LoadResult(EmptyMap, TRUE, dir, "returned", None, FALSE)
             ELSE IF ~f.exists
             THEN LoadResult(EmptyMap, TRUE, TRUE, "returned", None, FALSE)
             ELSE LET d == _dec(p, f)
                  IN  IF d.error # None
                      THEN LoadResult(c, l, dir, "raised", d.error, TRUE)
                      ELSE IF ~d.plain.wellformed
                      THEN LoadResult(c, l, dir, "raised", "JSONDecodeError", TRUE)
                      ELSE LoadResult(Loads(d.plain), TRUE, dir, "returned",
                                      None, TRUE)

\* _save (lines 67-73): the blob is written to path + ".tmp", which then
\* replaces the file at path.
_save(c, passphrase, salt, nonce) == _enc(passphrase, Dumps(c), salt, nonce)

\* What set leaves behind.
SetResult(c, l, f, dir, outcome, error, readFile) ==
    [cache |-> c, loaded |-> l, file |-> f, parent |-> dir,
     outcome |-> outcome, error |-> error, readFile |-> readFile]

\* set (lines 76-83).
MutSetLoadsFirst(c, l, f, dir, env, name, value, passphrase, salt, nonce) ==
    LET p == Resolve(passphrase, env)
        r == load(c, l, f, dir, env, p)
    IN  IF Falsy(p)
        THEN SetResult(r.cache, r.loaded, f, r.parent, "raised",
                       "Missing passphrase", r.readFile)
        ELSE IF r.outcome = "raised"
        THEN SetResult(r.cache, r.loaded, f, r.parent, "raised", r.error,
                       r.readFile)
        ELSE LET c2 == Put(r.cache, name, value)
             IN  SetResult(c2, r.loaded, _save(c2, p, salt, nonce), TRUE,
                           "returned", None, r.readFile)

set(c, l, f, dir, env, name, value, passphrase, salt, nonce) ==
    LET p == Resolve(passphrase, env)
    IN  IF Falsy(p)
        THEN SetResult(c, l, f, dir, "raised", "Missing passphrase", FALSE)
        ELSE LET r == load(c, l, f, dir, env, p)
             IN  IF r.outcome = "raised"
                 THEN SetResult(r.cache, r.loaded, f, r.parent, "raised", r.error,
                                r.readFile)
                 ELSE LET c2 == Put(r.cache, name, value)
                      IN  SetResult(c2, r.loaded, _save(c2, p, salt, nonce), TRUE,
                                    "returned", None, r.readFile)

\* What get returns.
NoValue == None

\* get (lines 85-87), with the default of its default argument: None.
get(c, l, f, dir, env, name, passphrase) ==
    LET r == load(c, l, f, dir, env, passphrase)
    IN  [load |-> r,
         value |-> IF r.outcome = "returned" /\ name \in DOMAIN r.cache
                   THEN r.cache[name] ELSE NoValue]

\* items (lines 89-91).
items(c, l, f, dir, env) ==
    LET r == load(c, l, f, dir, env, None)
    IN  [load |-> r, value |-> IF r.outcome = "returned" THEN r.cache ELSE EmptyMap]

(***************************************************************************)
(* Part II.  The state machine of the store.  One KeyStore lives in one    *)
(* process; Restart starts a new process on the same disk.                 *)
(***************************************************************************)
OpRec(op, name, value, passphrase, outcome, error, result, readFile) ==
    [op |-> op, name |-> name, value |-> value, passphrase |-> passphrase,
     outcome |-> outcome, error |-> error, result |-> result,
     readFile |-> readFile]

NoOp == OpRec("none", None, None, None, None, None, NoValue, FALSE)

NoSet == [done |-> FALSE, name |-> None, value |-> None, passphrase |-> None,
          blob |-> Absent]

InitKeyStore ==
    /\ cache = EmptyMap
    /\ loaded = FALSE
    /\ keyfile = Absent
    /\ parent = FALSE
    /\ environ = None
    /\ lastOp = NoOp
    /\ lastSet = NoSet
    /\ tampers = 0

Load(passphrase) ==
    LET r == load(cache, loaded, keyfile, parent, environ, passphrase)
    IN  /\ cache' = r.cache
        /\ loaded' = r.loaded
        /\ parent' = r.parent
        /\ lastOp' = OpRec("load", None, None, passphrase, r.outcome, r.error,
                           NoValue, r.readFile)
        /\ UNCHANGED <<keyfile, environ, lastSet, tampers, notKsVars>>

Get(name, passphrase) ==
    LET g == get(cache, loaded, keyfile, parent, environ, name, passphrase)
    IN  /\ cache' = g.load.cache
        /\ loaded' = g.load.loaded
        /\ parent' = g.load.parent
        /\ lastOp' = OpRec("get", name, None, passphrase, g.load.outcome,
                           g.load.error, g.value, g.load.readFile)
        /\ UNCHANGED <<keyfile, environ, lastSet, tampers, notKsVars>>

Items ==
    LET g == items(cache, loaded, keyfile, parent, environ)
    IN  /\ cache' = g.load.cache
        /\ loaded' = g.load.loaded
        /\ parent' = g.load.parent
        /\ lastOp' = OpRec("items", None, None, None, g.load.outcome,
                           g.load.error, g.value, g.load.readFile)
        /\ UNCHANGED <<keyfile, environ, lastSet, tampers, notKsVars>>

Set(name, value, passphrase, salt, nonce) ==
    LET r == set(cache, loaded, keyfile, parent, environ, name, value,
                 passphrase, salt, nonce)
    IN  /\ cache' = r.cache
        /\ loaded' = r.loaded
        /\ keyfile' = r.file
        /\ parent' = r.parent
        /\ lastOp' = OpRec("set", name, value, passphrase, r.outcome, r.error,
                           NoValue, r.readFile)
        /\ lastSet' = IF r.outcome = "returned"
                      THEN [done |-> TRUE, name |-> name, value |-> value,
                            passphrase |-> Resolve(passphrase, environ),
                            blob |-> r.file]
                      ELSE lastSet
        /\ tampers' = IF r.outcome = "returned" THEN 0 ELSE tampers
        /\ UNCHANGED <<environ, notKsVars>>

\* A new process: a new KeyStore(), with the passphrase variable it is
\* started with.
Restart(env) ==
    /\ cache' = EmptyMap
    /\ loaded' = FALSE
    /\ environ' = env
    /\ lastOp' = NoOp
    /\ UNCHANGED <<keyfile, parent, lastSet, tampers, notKsVars>>

\* The plaintexts an altered ciphertext can carry under the same key
\* stream: one value changed, or no JSON text at all.
AlteredPlain(data) ==
    ({Garbage} \cup
     {[data EXCEPT !.members[i][2] = v] :
        i \in DOMAIN data.members, v \in SecretValues}) \ {data}

\* The blobs that differ from blob in one field.
Altered(blob) ==
    ({[blob EXCEPT !.magic = m] : m \in {_AKS_MAGIC, "XKS1"}}
     \cup {[blob EXCEPT !.salt = x] : x \in Salts \cup {"s2"}}
     \cup {[blob EXCEPT !.nonce = x] : x \in Nonces \cup {"n2"}}
     \cup {[blob EXCEPT !.ct.data = d] : d \in AlteredPlain(blob.ct.data)}
     \cup {[blob EXCEPT !.tag.key = _kdf("forged", "forged")]}) \ {blob}

\* The adversary alters the stored file.
Tamper(blob) ==
    /\ keyfile.exists
    /\ tampers < MaxTamper
    /\ keyfile' = blob
    /\ tampers' = tampers + 1
    /\ lastOp' = NoOp
    /\ UNCHANGED <<cache, loaded, parent, environ, lastSet, notKsVars>>

NextKeyStore ==
    \/ \E passphrase \in PassArgs : Load(passphrase)
    \/ \E name \in SecretNames, passphrase \in PassArgs : Get(name, passphrase)
    \/ Items
    \/ \E name \in SecretNames, value \in SecretValues, passphrase \in PassArgs :
          \E salt \in Salts, nonce \in Nonces : Set(name, value, passphrase, salt, nonce)
    \/ \E env \in EnvValues : Restart(env)
    \/ \E blob \in Altered(keyfile) : Tamper(blob)

(***************************************************************************)
(* Part III.  The write of the store file, step by step.  _save writes the *)
(* blob to path + ".tmp" and replaces the file at path by it; the process  *)
(* may die between any two steps.                                          *)
(***************************************************************************)

\* A file of no bytes, and a file that holds a blob up to its tag.
EmptyFile == [Absent EXCEPT !.exists = TRUE]

Partial(blob) == [blob EXCEPT !.tag = Absent.tag]

\* open(tmp, "wb") (line 71): the file opened for writing is created or
\* truncated; files is the pair of the file at path and the one at tmp.
MutOpenInPlace(files) == [file |-> EmptyFile, tmp |-> files.tmp]

open_tmp(files) == [file |-> files.file, tmp |-> EmptyFile]

\* os.replace(tmp, self.path) (line 73).
replace(files) == [file |-> files.tmp, tmp |-> Absent]

NotSaving ==
    [pc |-> "idle", name |-> None, value |-> None, passphrase |-> None,
     blob |-> Absent]

InitSave ==
    /\ tmpfile = Absent
    /\ saving = NotSaving

\* set up to the blob of _save (lines 76-82, 68-69).
SetBegin(name, value, passphrase, salt, nonce) ==
    LET r == set(cache, loaded, keyfile, parent, environ, name, value,
                 passphrase, salt, nonce)
    IN  /\ saving.pc = "idle"
        /\ cache' = r.cache
        /\ loaded' = r.loaded
        /\ parent' = r.parent
        /\ IF r.outcome = "raised"
           THEN /\ lastOp' = OpRec("set", name, value, passphrase, r.outcome,
                                   r.error, NoValue, r.readFile)
                /\ saving' = saving
           ELSE /\ lastOp' = NoOp
                /\ saving' = [pc |-> "open", name |-> name, value |-> value,
                              passphrase |-> Resolve(passphrase, environ),
                              blob |-> r.file]
        /\ UNCHANGED <<keyfile, tmpfile, environ, lastSet, tampers, notSaveVars>>

\* with open(tmp, "wb") as f (line 71).
SaveOpen ==
    LET r == open_tmp([file |-> keyfile, tmp |-> tmpfile])
    IN  /\ saving.pc = "open"
        /\ keyfile' = r.file
        /\ tmpfile' = r.tmp
        /\ saving' = [saving EXCEPT !.pc = "write"]
        /\ UNCHANGED <<cache, loaded, parent, environ, lastOp, lastSet, tampers,
                       notSaveVars>>

\* f.write(blob) (line 72): a part of the blob is in the file.
SaveWrite ==
    /\ saving.pc = "write"
    /\ tmpfile' = Partial(saving.blob)
    /\ saving' = [saving EXCEPT !.pc = "close"]
    /\ UNCHANGED <<cache, loaded, keyfile, parent, environ, lastOp, lastSet,
                   tampers, notSaveVars>>

\* The end of the with block (line 72): the whole blob is in the file.
SaveClose ==
    /\ saving.pc = "close"
    /\ tmpfile' = saving.blob
    /\ saving' = [saving EXCEPT !.pc = "replace"]
    /\ UNCHANGED <<cache, loaded, keyfile, parent, environ, lastOp, lastSet,
                   tampers, notSaveVars>>

\* os.replace(tmp, self.path) (line 73), and set returns.
SaveReplace ==
    LET r == replace([file |-> keyfile, tmp |-> tmpfile])
    IN  /\ saving.pc = "replace"
        /\ keyfile' = r.file
        /\ tmpfile' = r.tmp
        /\ saving' = NotSaving
        /\ lastOp' = OpRec("set", saving.name, saving.value, saving.passphrase,
                           "returned", None, NoValue, FALSE)
        /\ lastSet' = [done |-> TRUE, name |-> saving.name,
                       value |-> saving.value,
                       passphrase |-> saving.passphrase, blob |-> r.file]
        /\ UNCHANGED <<cache, loaded, parent, environ, tampers, notSaveVars>>

\* The process dies, at any step, and a new one starts on the same disk.
Crash(env) ==
    /\ cache' = EmptyMap
    /\ loaded' = FALSE
    /\ environ' = env
    /\ lastOp' = NoOp
    /\ saving' = NotSaving
    /\ UNCHANGED <<keyfile, tmpfile, parent, lastSet, tampers, notSaveVars>>

\* A call of load between two sets.
LoadIdle(passphrase) == saving.pc = "idle" /\ Load(passphrase)

NextSave ==
    \/ \E name \in SecretNames, value \in SecretValues, passphrase \in PassArgs :
          \E salt \in Salts, nonce \in Nonces :
             SetBegin(name, value, passphrase, salt, nonce)
    \/ SaveOpen
    \/ SaveWrite
    \/ SaveClose
    \/ SaveReplace
    \/ \E env \in EnvValues : Crash(env)
    \/ \E passphrase \in PassArgs : LoadIdle(passphrase)

(***************************************************************************)
(* Part IV.  The Layered Cipher Gateway.  The ciphers are symbolic: a      *)
(* ciphertext names the key, the IV and the plaintext it was made from, a  *)
(* digest names the bytes it was made from.                                *)
(***************************************************************************)

\* The inputs of seal: dictionaries, member by member.  A key is a string
\* or an integer (ktype), written here by its text.
Member(ktype, key, value) == [ktype |-> ktype, key |-> key, value |-> value]

GwInputs ==
    {<<>>,
     <<Member("str", "message", "hello")>>,
     <<Member("str", "a", "x"), Member("str", "b", "y")>>,
     <<Member("int", "1", "x")>>}

\* json.dumps(data).encode() (line 23): every key is written as a string.
RECURSIVE json_dumps_members(_)
json_dumps_members(data) ==
    IF data = <<>> THEN <<>>
    ELSE << <<Head(data).key, Head(data).value>> >> \o json_dumps_members(Tail(data))

json_dumps(data) == [wellformed |-> TRUE, members |-> json_dumps_members(data)]

\* json.loads(data.decode()) (line 72): every key is read as a string.
RECURSIVE json_loads_members(_)
json_loads_members(members) ==
    IF members = <<>> THEN <<>>
    ELSE <<Member("str", Head(members)[1], Head(members)[2])>>
         \o json_loads_members(Tail(members))

json_loads(text) == json_loads_members(text.members)

\* base64.b64encode(x).decode() and base64.b64decode(y).
b64encode(x) == [b64 |-> x]

b64decode(y) == y.b64

\* The keys an instance may hold, and get_random_bytes(12), (16).
AesKeys == {<<"aes", "k1">>, <<"aes", "k2">>}
TwofishKeys == {<<"twofish", "k1">>, <<"twofish", "k2">>}
GwKeySets == [aes : AesKeys, twofish : TwofishKeys]
AesIvs == {"n1"}
TfIvs == {"iv1"}

\* Twofish in CFB mode.  Under another key the whole plaintext comes out
\* wrong; under the right key and another IV the first block does, which
\* holds the AES nonce and the head of the AES tag.
TfEncrypt(key, iv, plain) == [key |-> key, iv |-> iv, plain |-> plain]

TfDecrypt(key, iv, ct) ==
    IF ct.key = key /\ ct.iv = iv
    THEN ct.plain
    ELSE IF ct.key = key
    THEN [ct.plain EXCEPT !.iv = "garbled", !.tag.nonce = "garbled"]
    ELSE [iv  |-> "garbled",
          tag |-> [ct.plain.tag EXCEPT !.nonce = "garbled"],
          ct  |-> [ct.plain.ct EXCEPT !.data = Garbage]]

\* Whirlpool.new().update(tf_ct).hexdigest().
whirlpool(bytes) == [whirlpool |-> bytes]

\* seal (lines 21-46).
seal(keys, data, aes_iv, tf_iv) ==
    LET raw        == json_dumps(data)
        aes_ct     == Encrypt(keys.aes, aes_iv, raw)
        aes_tag    == Tag(keys.aes, aes_iv, aes_ct)
        aes_packet == [iv |-> aes_iv, tag |-> aes_tag, ct |-> aes_ct]
        tf_ct      == TfEncrypt(keys.twofish, tf_iv, aes_packet)
        checksum   == whirlpool(tf_ct)
        payload    == [iv |-> b64encode(tf_iv), data |-> b64encode(tf_ct),
                       hash |-> checksum]
    IN  b64encode(payload)

\* What unseal leaves behind: how it ended, the value returned and the
\* decryptions it performed.
Unsealed(outcome, error, value, steps) ==
    [outcome |-> outcome, error |-> error, value |-> value, steps |-> steps]

\* unseal (lines 48-72).
MutUnsealDecryptsFirst(keys, packet) ==
    LET payload    == b64decode(packet)
        tf_iv      == b64decode(payload.iv)
        tf_ct      == b64decode(payload.data)
        checksum   == payload.hash
        aes_packet == TfDecrypt(keys.twofish, tf_iv, tf_ct)
        aes_ct     == aes_packet.ct
    IN  IF aes_packet.tag # Tag(keys.aes, aes_packet.iv, aes_ct)
        THEN Unsealed("raised", "MAC check failed", <<>>, <<"twofish", "aes">>)
        ELSE IF whirlpool(tf_ct) # checksum
        THEN Unsealed("raised", "Integrity check failed", <<>>,
                      <<"twofish", "aes">>)
        ELSE Unsealed("returned", None,
                      json_loads(Decrypt(keys.aes, aes_packet.iv, aes_ct)),
                      <<"twofish", "aes">>)

MutUnsealNoTag(keys, packet) ==
    LET payload    == b64decode(packet)
        tf_iv      == b64decode(payload.iv)
        tf_ct      == b64decode(payload.data)
        checksum   == payload.hash
        aes_packet == TfDecrypt(keys.twofish, tf_iv, tf_ct)
        data       == aes_packet.ct.data
    IN  IF whirlpool(tf_ct) # checksum
        THEN Unsealed("raised", "Integrity check failed", <<>>, <<>>)
        ELSE IF ~data.wellformed
        THEN Unsealed("raised", "JSONDecodeError", <<>>, <<"twofish", "aes">>)
        ELSE Unsealed("returned", None, json_loads(data), <<"twofish", "aes">>)

unseal(keys, packet) ==
    LET payload  == b64decode(packet)
        tf_iv    == b64decode(payload.iv)
        tf_ct    == b64decode(payload.data)
        checksum == payload.hash
    IN  IF whirlpool(tf_ct) # checksum
        THEN Unsealed("raised", "Integrity check failed", <<>>, <<>>)
        ELSE LET aes_packet == TfDecrypt(keys.twofish, tf_iv, tf_ct)
                 aes_iv     == aes_packet.iv
                 aes_tag    == aes_packet.tag
                 aes_ct     == aes_packet.ct
             IN  IF aes_tag # Tag(keys.aes, aes_iv, aes_ct)
                 THEN Unsealed("raised", "MAC check failed", <<>>,
                               <<"twofish", "aes">>)
                 ELSE LET data == Decrypt(keys.aes, aes_iv, aes_ct)
                      IN  IF ~data.wellformed
                          THEN Unsealed("raised", "JSONDecodeError", <<>>,
                                        <<"twofish", "aes">>)
                          ELSE Unsealed("returned", None, json_loads(data),
                                        <<"twofish", "aes">>)

\* The state machine of the gateway: one instance seals, the packet travels,
\* and the instance that holds gwKeys unseals what arrives.
GwRec(op, outcome, error, value, steps) ==
    [op |-> op, outcome |-> outcome, error |-> error, value |-> value,
     steps |-> steps]

NoGw == GwRec("none", None, None, <<>>, <<>>)

FirstKeys == [aes |-> <<"aes", "k1">>, twofish |-> <<"twofish", "k1">>]

NoWire ==
    [present |-> FALSE, input |-> <<>>, keys |-> FirstKeys,
     sealed |-> seal(FirstKeys, <<>>, Empty, Empty),
     packet |-> seal(FirstKeys, <<>>, Empty, Empty)]

InitGateway ==
    /\ gwKeys = FirstKeys
    /\ wire = NoWire
    /\ lastGw = NoGw

Seal(data, aes_iv, tf_iv) ==
    LET packet == seal(gwKeys, data, aes_iv, tf_iv)
    IN  /\ wire' = [present |-> TRUE, input |-> data, keys |-> gwKeys,
                    sealed |-> packet, packet |-> packet]
        /\ lastGw' = GwRec("seal", "returned", None, <<>>, <<>>)
        /\ UNCHANGED <<gwKeys, notGwVars>>

Unseal ==
    LET r == unseal(gwKeys, wire.packet)
    IN  /\ wire.present
        /\ lastGw' = GwRec("unseal", r.outcome, r.error, r.value, r.steps)
        /\ UNCHANGED <<gwKeys, wire, notGwVars>>

\* Another instance, with the keys it was constructed with (lines 17-19).
NewGateway(keys) ==
    /\ gwKeys' = keys
    /\ lastGw' = NoGw
    /\ UNCHANGED <<wire, notGwVars>>

\* The outer ciphertexts an adversary can make of one: the bytes that cover
\* the inner ciphertext or the inner tag changed.
AlteredCt(tf_ct) ==
    ({[tf_ct EXCEPT !.plain.ct.data = d] :
        d \in {Garbage} \cup {json_dumps(x) : x \in GwInputs}}
     \cup {[tf_ct EXCEPT !.plain.tag.nonce = "forged"]}) \ {tf_ct}

\* The adversary alters the digest field of the packet.
TamperHash(bytes) ==
    /\ wire.present
    /\ wire' = [wire EXCEPT !.packet.b64.hash = whirlpool(bytes)]
    /\ wire' # wire
    /\ lastGw' = NoGw
    /\ UNCHANGED <<gwKeys, notGwVars>>

\* The adversary alters the outer ciphertext, and may recompute the digest
\* over the altered bytes.
TamperData(tf_ct, recompute) ==
    /\ wire.present
    /\ wire' = [wire EXCEPT
                  !.packet.b64.data = b64encode(tf_ct),
                  !.packet.b64.hash = IF recompute THEN whirlpool(tf_ct) ELSE @]
    /\ lastGw' = NoGw
    /\ UNCHANGED <<gwKeys, notGwVars>>

\* The adversary alters the IV of the outer layer.
TamperIv(tf_iv) ==
    /\ wire.present
    /\ wire' = [wire EXCEPT !.packet.b64.iv = b64encode(tf_iv)]
    /\ wire' # wire
    /\ lastGw' = NoGw
    /\ UNCHANGED <<gwKeys, notGwVars>>

NextGateway ==
    \/ \E data \in GwInputs, aes_iv \in AesIvs, tf_iv \in TfIvs :
          Seal(data, aes_iv, tf_iv)
    \/ Unseal
    \/ \E keys \in GwKeySets : NewGateway(keys)
    \/ \E bytes \in AlteredCt(b64decode(wire.packet.b64.data)) : TamperHash(bytes)
    \/ \E tf_ct \in AlteredCt(b64decode(wire.packet.b64.data)),
          recompute \in BOOLEAN : TamperData(tf_ct, recompute)
    \/ \E tf_iv \in TfIvs \cup {"iv2"} : TamperIv(tf_iv)

(***************************************************************************)
(* Part V.  The Task Queue.  The queue is queue.PriorityQueue: a list kept *)
(* as a binary heap by heappush and heappop, which order the entries       *)
(* (priority, time.time(), fn, args, kwargs) as Python orders tuples.      *)
(***************************************************************************)

\* workers: int = 2 (line 7).
NumWorkers == 2
Workers == 1..NumWorkers

\* The callables put, and the priorities they are put with.  Every call of
\* put passes the callable alone (no args, no kwargs), as rest_api does.
Callables == {"job", "boom"}
Raises(fn) == fn = "boom"
Priorities == {1, 5}

Entry(id, priority, ts, fn) == [id |-> id, prio |-> priority, ts |-> ts, fn |-> fn]

NoTask == Entry(0, 0, 0, None)

\* a < b on two entries, as tuples: the first field that differs decides.
\* Priorities and timestamps are numbers; two different functions cannot be
\* ordered (TypeError); entries equal in every field are not less.
Lt(a, b) ==
    IF a.prio # b.prio THEN (IF a.prio < b.prio THEN "lt" ELSE "ge")
    ELSE IF a.ts # b.ts THEN (IF a.ts < b.ts THEN "lt" ELSE "ge")
    ELSE IF a.fn # b.fn THEN "TypeError"
    ELSE "ge"

\* The list with the entries at positions i and j (counted from 0) exchanged.
Swap(h, i, j) == [h EXCEPT ![i + 1] = h[j + 1], ![j + 1] = h[i + 1]]

Sifted(h, error) == [heap |-> h, error |-> error]

\* heapq's siftdown: the entry at pos moves up while it is less than its
\* parent; a comparison that raises leaves the list as it is by then.
RECURSIVE siftdown(_, _, _)
siftdown(h, startpos, pos) ==
    IF pos <= startpos THEN Sifted(h, FALSE)
    ELSE LET parentpos == (pos - 1) \div 2
             cmp == Lt(h[pos + 1], h[parentpos + 1])
         IN  IF cmp = "TypeError" THEN Sifted(h, TRUE)
             ELSE IF cmp = "ge" THEN Sifted(h, FALSE)
             ELSE siftdown(Swap(h, parentpos, pos), startpos, parentpos)

\* heapq's siftup from the root: the smaller child moves up until a leaf is
\* reached, then the entry is sifted down from there.
RECURSIVE siftup(_, _)
siftup(h, pos) ==
    LET endpos == Len(h)
        limit  == endpos \div 2
        left   == 2 * pos + 1
    IN  IF pos >= limit THEN siftdown(h, 0, pos)
        ELSE LET cmp == IF left + 1 < endpos THEN Lt(h[left + 1], h[left + 2])
                        ELSE "lt"
             IN  IF cmp = "TypeError" THEN Sifted(h, TRUE)
                 ELSE LET childpos == IF cmp = "lt" THEN left ELSE left + 1
                      IN  siftup(Swap(h, childpos, pos), childpos)

\* PriorityQueue._put: heappush(self.queue, item).
heappush(h, item) == siftdown(Append(h, item), 0, Len(h))

\* PriorityQueue._get: heappop(self.queue).  The last entry is taken off and
\* put at the root, and sifted; when a comparison raises, the entry that was
\* at the root is returned to nobody.
heappop(h) ==
    LET n == Len(h)
        lastelt == h[n]
        rest == SubSeq(h, 1, n - 1)
    IN  IF n = 1
        THEN [heap |-> <<>>, error |-> FALSE, item |-> lastelt]
        ELSE LET r == siftup([rest EXCEPT ![1] = lastelt], 0)
             IN  [heap |-> r.heap, error |-> r.error,
                  item |-> IF r.error THEN NoTask ELSE h[1]]

\* A worker thread: at the loop condition (line 17), in q.get (line 19),
\* about to call the task it took (line 23), out of the loop (exited), or
\* ended by an exception (dead).
Thread(pc, task) == [pc |-> pc, task |-> task]

PutRec(id, outcome, error) == [id |-> id, outcome |-> outcome, error |-> error]

InitTaskQueue ==
    /\ heap = <<>>
    /\ unfinished = 0
    /\ shutdown_flag = FALSE
    /\ threads = [w \in Workers |-> Thread("check", NoTask)]
    /\ executed = <<>>
    /\ now = 0
    /\ nextId = 0
    /\ lastPut = PutRec(0, None, None)

\* put (lines 27-28), with Queue.put: the entry is pushed, and only when the
\* push returned is the count of unfinished tasks raised.
put(fn, priority) ==
    LET item == Entry(nextId + 1, priority, now, fn)
        r == heappush(heap, item)
    IN  /\ nextId < MaxPuts
        /\ nextId' = nextId + 1
        /\ heap' = r.heap
        /\ unfinished' = IF r.error THEN unfinished ELSE unfinished + 1
        /\ lastPut' = IF r.error THEN PutRec(nextId + 1, "raised", "TypeError")
                      ELSE PutRec(nextId + 1, "returned", None)
        /\ UNCHANGED <<shutdown_flag, threads, executed, now, notTqVars>>

\* The clock moves on.
Tick ==
    /\ now < MaxNow
    /\ now' = now + 1
    /\ UNCHANGED <<heap, unfinished, shutdown_flag, threads, executed, nextId,
                   lastPut, notTqVars>>

\* while not self.shutdown_flag.is_set() (line 17).
WorkerCheck(w) ==
    /\ threads[w].pc = "check"
    /\ threads' = [threads EXCEPT
                     ![w].pc = IF is_set(shutdown_flag) THEN "exited" ELSE "get"]
    /\ UNCHANGED <<heap, unfinished, shutdown_flag, executed, now, nextId,
                   lastPut, notTqVars>>

\* self.q.get(timeout=0.2) (lines 18-21): queue.Empty after the timeout on
\* an empty queue, else the entry heappop returns, or its TypeError, which
\* no handler of _worker catches.
WorkerGet(w) ==
    /\ threads[w].pc = "get"
    /\ IF heap = <<>>
       THEN /\ threads' = [threads EXCEPT ![w].pc = "check"]
            /\ heap' = heap
       ELSE LET r == heappop(heap)
            IN  /\ heap' = r.heap
                /\ threads' = [threads EXCEPT
                                 ![w] = IF r.error THEN Thread("dead", NoTask)
                                        ELSE Thread("run", r.item)]
    /\ UNCHANGED <<unfinished, shutdown_flag, executed, now, nextId, lastPut,
                   notTqVars>>

\* fn(*args, **kwargs) and, finally, self.q.task_done() (lines 22-25).  An
\* exception of fn, or the ValueError of a task_done too many, ends the
\* thread: _worker catches neither.
WorkerRun(w) ==
    /\ threads[w].pc = "run"
    /\ executed' = Append(executed, threads[w].task.id)
    /\ unfinished' = IF unfinished = 0 THEN unfinished ELSE unfinished - 1
    /\ threads' = [threads EXCEPT
                     ![w] = IF Raises(threads[w].task.fn) \/ unfinished = 0
                            THEN Thread("dead", NoTask)
                            ELSE Thread("check", NoTask)]
    /\ UNCHANGED <<heap, shutdown_flag, now, nextId, lastPut, notTqVars>>

\* stop (lines 30-33): the flag is set; each join returns after at most
\* 0.5 s, whatever the thread does.
Stop ==
    /\ ~shutdown_flag
    /\ shutdown_flag' = TRUE
    /\ UNCHANGED <<heap, unfinished, threads, executed, now, nextId, lastPut,
                   notTqVars>>

WorkerStep(w) == WorkerCheck(w) \/ WorkerGet(w) \/ WorkerRun(w)

NextTaskQueue ==
    \/ \E fn \in Callables, priority \in Priorities : put(fn, priority)
    \/ Tick
    \/ \E w \in Workers : WorkerCheck(w)
    \/ \E w \in Workers : WorkerGet(w)
    \/ \E w \in Workers : WorkerRun(w)
    \/ Stop

(***************************************************************************)
(* Part VI.  The Event Bus: src/core/event_bus.py.  subscribe appends the  *)
(* handler to the list of its topic under the lock.  publish copies the    *)
(* list of the topic under the lock, releases the lock and calls the       *)
(* handlers of the copy one by one; what a handler raises is swallowed.    *)
(* Between two calls of handlers other threads, and the handlers           *)
(* themselves, may subscribe.                                              *)
(***************************************************************************)
Topics == {"registry/updated", "heartbeat"}

\* The handlers: two that return and one that raises an Exception.
Handlers == {"on_update", "on_beat", "on_fail"}

HandlerRaises(h) == h = "on_fail"

\* What is published: data defaults to None.
Payloads == {None, "modules"}

\* list.append.
MutAppendFirst(handlers, handler) == <<handler>> \o handlers

append(handlers, handler) == Append(handlers, handler)

\* list(self._sub.get(topic, [])): the copy of the list of the topic; a
\* topic nobody subscribed to has no handlers.
snapshot(subs, topic) == subs[topic]

\* One call h(data) of a handler, and whether it raised.
Called(handler, data, raised) ==
    [handler |-> handler, data |-> data, raised |-> raised]

\* try: h(data) / except Exception: pass.  What leaves the try statement
\* after the call of a handler: nothing, whether the handler raised or not.
MutNoExcept(raised) == IF raised THEN "Exception" ELSE None

except_pass(raised) == None

\* publish: where it is (pc), its arguments, the copy of the list it took,
\* the index of the next handler, how many calls of subscribe had been made
\* when it took the copy, and the exception it raised to its caller.
Publish(pc, topic, data, handlers, next, at) ==
    [pc |-> pc, topic |-> topic, data |-> data, handlers |-> handlers,
     next |-> next, at |-> at, error |-> None]

NoPublish == Publish("idle", None, None, <<>>, 1, 0)

InitEventBus ==
    /\ sub = [t \in Topics |-> <<>>]
    /\ pub = NoPublish
    /\ calls = <<>>
    /\ subLog = <<>>

\* subscribe(topic, handler).
subscribe(topic, handler) ==
    /\ Len(subLog) < MaxSubs
    /\ sub' = [sub EXCEPT ![topic] = append(@, handler)]
    /\ subLog' = Append(subLog, [topic |-> topic, handler |-> handler])
    /\ UNCHANGED <<pub, calls>>
    /\ UNCHANGED notBusVars

\* publish(topic, data), up to the release of the lock: the copy is taken.
PublishBegin(topic, data) ==
    /\ pub.pc = "idle"
    /\ pub' = Publish("calling", topic, data, snapshot(sub, topic), 1, Len(subLog))
    /\ calls' = <<>>
    /\ UNCHANGED <<sub, subLog>>
    /\ UNCHANGED notBusVars

\* publish, one turn of the loop: the next handler of the copy is called
\* with the data; if it raises, the exception is dropped.
PublishCall ==
    /\ pub.pc = "calling"
    /\ pub.next <= Len(pub.handlers)
    /\ LET h == pub.handlers[pub.next]
           error == except_pass(HandlerRaises(h))
       IN  /\ calls' = Append(calls, Called(h, pub.data, HandlerRaises(h)))
           /\ pub' = IF error = None
                     THEN [pub EXCEPT !.next = @ + 1]
                     ELSE [pub EXCEPT !.pc = "idle", !.error = error]
    /\ UNCHANGED <<sub, subLog>>
    /\ UNCHANGED notBusVars

\* publish returns when the copy is exhausted.
PublishReturn ==
    /\ pub.pc = "calling"
    /\ pub.next > Len(pub.handlers)
    /\ pub' = [pub EXCEPT !.pc = "idle"]
    /\ UNCHANGED <<sub, calls, subLog>>
    /\ UNCHANGED notBusVars

NextEventBus ==
    \/ \E topic \in Topics, handler \in Handlers : subscribe(topic, handler)
    \/ \E topic \in Topics, data \in Payloads : PublishBegin(topic, data)
    \/ PublishCall
    \/ PublishReturn

(***************************************************************************)
(* Part VII.  The Scheduler: src/core/scheduler.py.  One thread runs       *)
(* _loop: at each tick it reads the clock once, walks a copy of the jobs   *)
(* and calls, in that thread, the callable of each job that is due.  A     *)
(* callable takes time; the clock is in seconds and never goes back.       *)
(***************************************************************************)
JobNames == {"hb", "sync"}

\* The callables: "heartbeat" returns at once, "slow" takes three seconds,
\* "fail" raises.
Takes(fn) == IF fn = "slow" THEN 3 ELSE 0

JobRaises(fn) == fn = "fail"

\* The jobs that are added: the heartbeat of the interface, a slow job on a
\* one-second interval, a job that fails under the name of the first.
JobArgs ==
    { [name |-> "hb",   every_sec |-> 2, fn |-> "heartbeat"],
      [name |-> "sync", every_sec |-> 1, fn |-> "slow"],
      [name |-> "hb",   every_sec |-> 1, fn |-> "fail"] }

\* A Job object.  added, fired, began and ended are history: when the job
\* was made, whether its callable was ever called, and when the last call
\* began and ended.
Job(name, every_sec, fn, next_at, added) ==
    [name |-> name, every_sec |-> every_sec, fn |-> fn, next_at |-> next_at,
     added |-> added, fired |-> FALSE, began |-> 0, ended |-> 0]

\* Job.__init__: self.next_at = time.time() + every_sec.
NewJob(name, every_sec, fn, time) == Job(name, every_sec, fn, time + every_sec, time)

\* j.next_at = time.time() + j.every_sec, in the finally clause.  next_at is
\* the value the job had, now_ the reading of the tick, after the reading
\* taken when the callable has finished.
MutNextFromTick(next_at, now_, after, every_sec) == now_ + every_sec

MutNextOnCadence(next_at, now_, after, every_sec) == next_at + every_sec

next_run(next_at, now_, after, every_sec) == after + every_sec

\* self.jobs[name] = job: a name the dict holds keeps its place.
DictSet(dict, name, id) ==
    IF \E i \in DOMAIN dict : dict[i].name = name
    THEN [i \in DOMAIN dict |->
             IF dict[i].name = name THEN [name |-> name, id |-> id] ELSE dict[i]]
    ELSE Append(dict, [name |-> name, id |-> id])

\* self.jobs.pop(name, None).
DictPop(dict, name) == SelectSeq(dict, LAMBDA e : e.name # name)

\* list(self.jobs.values()).
DictValues(dict) == [i \in DOMAIN dict |-> dict[i].id]

\* The thread: where it is, the reading of the tick, the jobs of the copy
\* still to look at, the job whose callable is running.  Between two ticks
\* the reading and the copy are of no account.
Loop(pc, now_, pending, job) ==
    [pc |-> pc, now |-> now_, pending |-> pending, job |-> job]

InitScheduler ==
    /\ jobs = <<>>
    /\ jobObjs = <<>>
    /\ clock = 0
    /\ loop = Loop("new", 0, <<>>, 0)
    /\ sched_stop = FALSE

\* add(name, every_sec, fn).
add(name, every_sec, fn) ==
    /\ Len(jobObjs) < MaxJobs
    /\ jobObjs' = Append(jobObjs, NewJob(name, every_sec, fn, clock))
    /\ jobs' = DictSet(jobs, name, Len(jobObjs) + 1)
    /\ UNCHANGED <<clock, loop, sched_stop>>
    /\ UNCHANGED notSchedVars

\* remove(name).  Of a name the dict does not hold it changes nothing.
remove(name) ==
    /\ \E i \in DOMAIN jobs : jobs[i].name = name
    /\ jobs' = DictPop(jobs, name)
    /\ UNCHANGED <<jobObjs, clock, loop, sched_stop>>
    /\ UNCHANGED notSchedVars

\* start().
start ==
    /\ loop.pc = "new"
    /\ loop' = [loop EXCEPT !.pc = "top"]
    /\ UNCHANGED <<jobs, jobObjs, clock, sched_stop>>
    /\ UNCHANGED notSchedVars

\* _loop: the loop condition, the reading of the clock and the copy of the
\* jobs.
LoopTick ==
    /\ loop.pc = "top"
    /\ loop' = IF is_set(sched_stop)
               THEN Loop("exited", 0, <<>>, 0)
               ELSE Loop("scan", clock, DictValues(jobs), 0)
    /\ UNCHANGED <<jobs, jobObjs, clock, sched_stop>>
    /\ UNCHANGED notSchedVars

\* _loop: the next job of the copy; if now >= j.next_at its callable is
\* called.  After the last job the thread sleeps 0.2 seconds and is at the
\* loop condition again.
LoopScan ==
    /\ loop.pc = "scan"
    /\ IF loop.pending = <<>>
       THEN /\ loop' = Loop("top", 0, <<>>, 0)
            /\ UNCHANGED jobObjs
       ELSE LET id == Head(loop.pending)
            IN  IF loop.now >= jobObjs[id].next_at
                THEN /\ loop' = [loop EXCEPT !.pc = "call", !.job = id,
                                             !.pending = Tail(@)]
                     /\ jobObjs' = [jobObjs EXCEPT ![id].fired = TRUE,
                                                   ![id].began = clock]
                ELSE /\ loop' = [loop EXCEPT !.pending = Tail(@)]
                     /\ UNCHANGED jobObjs
    /\ UNCHANGED <<jobs, clock, sched_stop>>
    /\ UNCHANGED notSchedVars

\* _loop: the callable finishes, by returning or by raising; the finally
\* clause sets next_at; what the callable raised goes on out of _loop and
\* ends the thread.
JobDone ==
    /\ loop.pc = "call"
    /\ LET j == jobObjs[loop.job]
       IN  /\ clock = j.began + Takes(j.fn)
           /\ jobObjs' = [jobObjs EXCEPT
                  ![loop.job].next_at = next_run(j.next_at, loop.now, clock, j.every_sec),
                  ![loop.job].ended = clock]
           /\ loop' = IF JobRaises(j.fn)
                      THEN Loop("dead", 0, <<>>, 0)
                      ELSE [loop EXCEPT !.pc = "scan", !.job = 0]
    /\ UNCHANGED <<jobs, clock, sched_stop>>
    /\ UNCHANGED notSchedVars

\* stop().
SchedStop ==
    /\ ~sched_stop
    /\ sched_stop' = TRUE
    /\ UNCHANGED <<jobs, jobObjs, clock, loop>>
    /\ UNCHANGED notSchedVars

\* A second passes.  A callable that is running takes the time it takes,
\* no more.
ClockTick ==
    /\ clock < MaxClock
    /\ loop.pc = "call" =>
          clock < jobObjs[loop.job].began + Takes(jobObjs[loop.job].fn)
    /\ clock' = clock + 1
    /\ UNCHANGED <<jobs, jobObjs, loop, sched_stop>>
    /\ UNCHANGED notSchedVars

NextScheduler ==
    \/ \E a \in JobArgs : add(a.name, a.every_sec, a.fn)
    \/ \E name \in JobNames : remove(name)
    \/ start
    \/ LoopTick
    \/ LoopScan
    \/ JobDone
    \/ SchedStop
    \/ ClockTick

(***************************************************************************)
(* Part VIII.  The Source Watcher: src/core/auto_watcher.py.  One thread   *)
(* runs _loop: it takes a snapshot of the modification times of the .py    *)
(* files under the watched paths, then at each poll sleeps, takes a new    *)
(* snapshot and, if it is not equal to the stored one, stores it and calls *)
(* on_change.  A snapshot is taken here at one instant.                    *)
(***************************************************************************)
\* The files under the watched paths "plugins" and "skills".
WatchedFiles == {"plugins/a.py", "skills/b.py", "plugins/notes.txt"}

\* f.endswith(".py").
IsPy(path) == path \in {"plugins/a.py", "skills/b.py"}

\* A modification time; 0 stands for a file that does not exist.
Mtimes == 0..MaxMtime

\* _snapshot: the path and modification time of each .py file there is.  A
\* path with 0 is not in the dict.
MutSnapshotNames(files) ==
    [path \in {q \in WatchedFiles : IsPy(q)} |-> IF files[path] > 0 THEN 1 ELSE 0]

_snapshot(files) == [path \in {q \in WatchedFiles : IsPy(q)} |-> files[path]]

\* try: self.on_change() / except Exception: pass.  What leaves the try
\* statement: nothing.
MutOnChangeNoExcept(raised) == IF raised THEN "Exception" ELSE None

on_change_except(raised) == None

\* A poll: in how many paths the snapshots differed, how often on_change
\* was called, whether it raised, and whether it had raised at a poll before.
Poll(differed, called, raised, after_failure) ==
    [differed |-> differed, called |-> called, raised |-> raised,
     after_failure |-> after_failure]

InitWatcher ==
    /\ fs = [path \in WatchedFiles |-> IF path = "plugins/a.py" THEN 1 ELSE 0]
    /\ mtimes = [path \in {q \in WatchedFiles : IsPy(q)} |-> 0]
    /\ watch = "new"
    /\ watch_stop = FALSE
    /\ lastPoll = Poll(0, 0, FALSE, FALSE)

\* A file is written or created: it has a modification time it had not.
WriteFile(path, mtime) ==
    /\ mtime > 0
    /\ mtime # fs[path]
    /\ fs' = [fs EXCEPT ![path] = mtime]
    /\ UNCHANGED <<mtimes, watch, watch_stop, lastPoll>>
    /\ UNCHANGED notWatchVars

\* A file is removed.
RemoveFile(path) ==
    /\ fs[path] > 0
    /\ fs' = [fs EXCEPT ![path] = 0]
    /\ UNCHANGED <<mtimes, watch, watch_stop, lastPoll>>
    /\ UNCHANGED notWatchVars

\* start().
WatchStart ==
    /\ watch = "new"
    /\ watch' = "init"
    /\ UNCHANGED <<fs, mtimes, watch_stop, lastPoll>>
    /\ UNCHANGED notWatchVars

\* _loop: self._mtimes = self._snapshot().
WatchInit ==
    /\ watch = "init"
    /\ mtimes' = _snapshot(fs)
    /\ watch' = "top"
    /\ UNCHANGED <<fs, watch_stop, lastPoll>>
    /\ UNCHANGED notWatchVars

\* _loop: the loop condition; the thread then sleeps for the interval.
WatchCheck ==
    /\ watch = "top"
    /\ watch' = IF is_set(watch_stop) THEN "exited" ELSE "sleep"
    /\ UNCHANGED <<fs, mtimes, watch_stop, lastPoll>>
    /\ UNCHANGED notWatchVars

\* _loop: the poll after the sleep.  on_change returns or raises.
WatchPoll(raises) ==
    /\ watch = "sleep"
    /\ LET snap == _snapshot(fs)
           differed == Cardinality({path \in DOMAIN snap : snap[path] # mtimes[path]})
           before == lastPoll.raised \/ lastPoll.after_failure
       IN  IF snap # mtimes
           THEN /\ mtimes' = snap
                /\ lastPoll' = Poll(differed, 1, raises, before)
                /\ watch' = IF on_change_except(raises) = None
                            THEN "top" ELSE "dead"
           ELSE /\ ~raises
                /\ lastPoll' = Poll(0, 0, FALSE, before)
                /\ watch' = "top"
                /\ UNCHANGED mtimes
    /\ UNCHANGED <<fs, watch_stop>>
    /\ UNCHANGED notWatchVars

\* stop().
WatchStop ==
    /\ ~watch_stop
    /\ watch_stop' = TRUE
    /\ UNCHANGED <<fs, mtimes, watch, lastPoll>>
    /\ UNCHANGED notWatchVars

NextWatcher ==
    \/ \E path \in WatchedFiles, mtime \in Mtimes : WriteFile(path, mtime)
    \/ \E path \in WatchedFiles : RemoveFile(path)
    \/ WatchStart
    \/ WatchInit
    \/ WatchCheck
    \/ \E raises \in BOOLEAN : WatchPoll(raises)
    \/ WatchStop

(***************************************************************************)
(* Part IX.  The registry under concurrent callers.  The REST interface    *)
(* and the watcher thread share one OrchestratorSecure without a lock: a   *)
(* thread in register or auto_discover runs beside a thread in execute or  *)
(* list_modules.  Each call is taken statement by statement.  The values   *)
(* of self.registry are dict objects: registry holds references to them,   *)
(* and info (line 54) is a reference to the object found.                  *)
(***************************************************************************)
NoPath == DottedPath(None, None)

\* The calls of register that auto_discover makes (lines 42-49), in order.
RECURSIVE FoundIn(_, _)
FoundIn(folder, files) ==
    IF files = <<>> THEN <<>>
    ELSE LET file == Head(files)
         IN  (IF EndsWithPy(file) /\ ~StartsWithDunder(file)
              THEN <<[name |-> file.stem, path |-> DottedPath(folder, file.stem)]>>
              ELSE <<>>) \o FoundIn(folder, Tail(files))

RECURSIVE Found(_, _)
Found(folders, listdir) ==
    IF folders = <<>> THEN <<>>
    ELSE (IF Head(folders) \notin DOMAIN listdir THEN <<>>
          ELSE FoundIn(Head(folders), listdir[Head(folders)]))
         \o Found(Tail(folders), listdir)

\* self.registry[name] = {"path": ..., "signature": ..., ...} (lines 30-34):
\* a new dict is built, then bound to the name in one store.
MutStoreInPlace(objs, refs, name, rec) ==
    IF name \in DOMAIN refs
    THEN [dicts |-> [objs EXCEPT ![refs[name]] = rec], refs |-> refs]
    ELSE [dicts |-> Append(objs, rec), refs |-> Put(refs, name, Len(objs) + 1)]

store(objs, refs, name, rec) ==
    [dicts |-> Append(objs, rec), refs |-> Put(refs, name, Len(objs) + 1)]

Writer(pc, todo) == [pc |-> pc, todo |-> todo]

Reader(pc, name, func, arg, info, path, signature, raced) ==
    [pc |-> pc, name |-> name, func |-> func, arg |-> arg, info |-> info,
     path |-> path, signature |-> signature, raced |-> raced]

IdleReader == Reader("idle", None, None, None, 0, NoPath, sign(NoPath), FALSE)

Read(op, name, found, path, signature, outcome, keys, raced) ==
    [op |-> op, name |-> name, found |-> found, path |-> path,
     signature |-> signature, outcome |-> outcome, keys |-> keys,
     raced |-> raced]

\* The log lines the calls in progress have yet to write.
Owed == Len(writer.todo) + (IF reader.pc = "idle" THEN 0 ELSE 1)

InitRace ==
    /\ dicts = <<>>
    /\ regRefs = EmptyMap
    /\ regLog = <<>>
    /\ writer = Writer("idle", <<>>)
    /\ reader = IdleReader
    /\ lastRead = Read(None, None, FALSE, NoPath, sign(NoPath), None, {}, FALSE)

\* A thread calls register(name, path).
RegisterBegin(name, path) ==
    /\ writer.pc = "idle"
    /\ Len(log_file) + Owed + 1 <= MaxLog
    /\ writer' = Writer("import", <<[name |-> name, path |-> path]>>)
    /\ UNCHANGED <<dicts, regRefs, regLog, reader, lastRead, notRaceVars>>

\* A thread calls auto_discover(): the watcher's on_change, or the start.
DiscoverBegin(folders, listdir) ==
    LET todo == Found(IF folders.given THEN folders.value
                      ELSE <<"plugins", "skills">>, listdir)
    IN  /\ writer.pc = "idle"
        /\ todo # <<>>
        /\ Len(log_file) + Owed + Len(todo) <= MaxLog
        /\ writer' = Writer("import", todo)
        /\ UNCHANGED <<dicts, regRefs, regLog, reader, lastRead, notRaceVars>>

\* Line 29: importlib.import_module(path); on failure lines 36-37.
WriterImport ==
    /\ writer.pc = "import"
    /\ IF import_module(Head(writer.todo).path) = "ok"
       THEN /\ writer' = Writer("store", writer.todo)
            /\ UNCHANGED log_file
       ELSE /\ writer' = Writer(IF Tail(writer.todo) = <<>> THEN "idle" ELSE "import",
                                Tail(writer.todo))
            /\ log_file' = Append(log_file, LogLine("Failed to register", TRUE))
    /\ UNCHANGED <<registry, lastCall>>
    /\ UNCHANGED <<dicts, regRefs, regLog, reader, lastRead, notOrchRaceVars>>

\* Lines 30-34.
WriterStore ==
    LET call == Head(writer.todo)
        rec == [path |-> call.path, signature |-> sign(call.path)]
        r == store(dicts, regRefs, call.name, rec)
    IN  /\ writer.pc = "store"
        /\ dicts' = r.dicts
        /\ regRefs' = r.refs
        /\ regLog' = Append(regLog, [name |-> call.name, path |-> rec.path,
                                     signature |-> rec.signature])
        /\ writer' = Writer("log", writer.todo)
        /\ reader' = IF reader.pc \in {"path", "signature", "verify"}
                        /\ reader.name = call.name
                     THEN [reader EXCEPT !.raced = TRUE] ELSE reader
        /\ UNCHANGED <<lastRead, notRaceVars>>

\* Line 35.
WriterLog ==
    /\ writer.pc = "log"
    /\ log_file' = Append(log_file, LogLine("Registered", FALSE))
    /\ writer' = Writer(IF Tail(writer.todo) = <<>> THEN "idle" ELSE "import",
                        Tail(writer.todo))
    /\ UNCHANGED <<registry, lastCall>>
    /\ UNCHANGED <<dicts, regRefs, regLog, reader, lastRead, notOrchRaceVars>>

\* Another thread calls execute(module_name, func_name, arg).
ExecuteBegin(module_name, func_name, arg) ==
    /\ reader.pc = "idle"
    /\ Len(log_file) + Owed + 1 <= MaxLog
    /\ reader' = Reader("get", module_name, func_name, arg, 0, NoPath,
                        sign(NoPath), FALSE)
    /\ UNCHANGED <<dicts, regRefs, regLog, writer, lastRead, notRaceVars>>

\* Lines 54-56: info = self.registry.get(module_name).
ReadGet ==
    /\ reader.pc = "get"
    /\ IF reader.name \in DOMAIN regRefs
       THEN /\ reader' = [reader EXCEPT !.pc = "path", !.info = regRefs[reader.name]]
            /\ UNCHANGED lastRead
       ELSE /\ reader' = IdleReader
            /\ lastRead' = Read("execute", reader.name, FALSE, NoPath,
                                sign(NoPath), "raised", {}, FALSE)
    /\ UNCHANGED <<dicts, regRefs, regLog, writer, notRaceVars>>

\* Line 57: path = info["path"].
ReadPath ==
    /\ reader.pc = "path"
    /\ reader' = [reader EXCEPT !.pc = "signature", !.path = dicts[reader.info].path]
    /\ UNCHANGED <<dicts, regRefs, regLog, writer, lastRead, notRaceVars>>

\* Line 58: signature = info["signature"].
ReadSignature ==
    /\ reader.pc = "signature"
    /\ reader' = [reader EXCEPT !.pc = "verify",
                                !.signature = dicts[reader.info].signature]
    /\ UNCHANGED <<dicts, regRefs, regLog, writer, lastRead, notRaceVars>>

\* Lines 59-67, on the path and the signature the thread holds.
ReadFinish ==
    LET r == IF ~verify(reader.path, reader.signature)
             THEN Raised("Signature mismatch")
             ELSE IF import_module(reader.path) # "ok"
             THEN Raised("ImportError")
             ELSE IF ~callable(reader.path, reader.func)
             THEN Raised("Function not found")
             ELSE Invoke(reader.path, reader.func, reader.arg)
    IN  /\ reader.pc = "verify"
        /\ log_file' = log_file \o r.lines
        /\ lastRead' = Read("execute", reader.name, TRUE, reader.path,
                            reader.signature, r.outcome, {}, reader.raced)
        /\ reader' = IdleReader
        /\ UNCHANGED <<registry, lastCall>>
        /\ UNCHANGED <<dicts, regRefs, regLog, writer, notOrchRaceVars>>

\* list_modules (lines 93-94): list(self.registry.keys()) is one call into
\* the interpreter, which no other thread's statement interrupts.
ListKeys ==
    /\ reader.pc = "idle"
    /\ lastRead' = Read("list_modules", None, FALSE, NoPath, sign(NoPath),
                        "returned", DOMAIN regRefs, writer.pc # "idle")
    /\ UNCHANGED <<dicts, regRefs, regLog, writer, reader, notRaceVars>>

NextRace ==
    \/ \E name \in Names, path \in Paths : RegisterBegin(name, path)
    \/ \E disk \in Disks : \E listdir \in Listings(disk) :
          DiscoverBegin(FoldersDefault, listdir)
    \/ WriterImport
    \/ WriterStore
    \/ WriterLog
    \/ \E m \in Names : ExecuteBegin(m, "quote", "BTC")
    \/ ReadGet
    \/ ReadPath
    \/ ReadSignature
    \/ ReadFinish
    \/ ListKeys

(***************************************************************************)
(* Part X.  The Secret Store with two threads in set.  key_store is one    *)
(* object for the process (line 94) and has no lock: both threads work on  *)
(* self._cache and on the one path + ".tmp".  The store is loaded, so the  *)
(* load of set returns at line 49.  A directory entry names an inode; an   *)
(* open file is a reference to its inode, whatever the names do later.  A  *)
(* load of another process reads the file at path.                         *)
(***************************************************************************)
Setters == {1, 2}

\* The passphrase given to set and to the load of the other process.
StorePass == "p1"

\* open(tmp, "wb") (line 71): the inode at tmp is truncated, or a new one is
\* made and entered at tmp; f refers to it.
open_wb(nodes, lnk) ==
    IF lnk.tmp = 0
    THEN [inodes |-> Append(nodes, EmptyFile),
          links |-> [lnk EXCEPT !.tmp = Len(nodes) + 1],
          fd |-> Len(nodes) + 1]
    ELSE [inodes |-> [nodes EXCEPT ![lnk.tmp] = EmptyFile],
          links |-> lnk, fd |-> lnk.tmp]

\* os.replace(tmp, self.path) (line 73): the entry at path names the inode
\* of tmp and the entry at tmp is gone; with no entry at tmp it raises.
os_replace(lnk) ==
    IF lnk.tmp = 0
    THEN [links |-> lnk, error |-> "FileNotFoundError"]
    ELSE [links |-> [file |-> lnk.tmp, tmp |-> 0], error |-> None]

Setter(pc, name, value, blob, fd, outcome) ==
    [pc |-> pc, name |-> name, value |-> value, blob |-> blob, fd |-> fd,
     outcome |-> outcome]

\* The bytes at a directory entry (Absent: no entry).
FileAt(entry) == IF entry = 0 THEN Absent ELSE inodes[entry]

InitShared ==
    /\ inodes = <<>>
    /\ links = [file |-> 0, tmp |-> 0]
    /\ mem = EmptyMap
    /\ setters = [w \in Setters |-> Setter("idle", None, None, Absent, 0, None)]
    /\ fetched = [read |-> FALSE, bytes |-> Absent, during |-> 0]

\* set up to line 82: self._cache[name] = value.
SetAssign(w, name, value) ==
    /\ setters[w].pc = "idle"
    /\ mem' = Put(mem, name, value)
    /\ setters' = [setters EXCEPT ![w] = Setter("enc", name, value, Absent, 0, None)]
    /\ UNCHANGED <<inodes, links, fetched, notSharedVars>>

\* _save, line 69: the blob of the cache as it is now.
SaveEnc(w, salt, nonce) ==
    /\ setters[w].pc = "enc"
    /\ setters' = [setters EXCEPT ![w].pc = "open",
                                  ![w].blob = _enc(StorePass, Dumps(mem), salt, nonce)]
    /\ UNCHANGED <<inodes, links, mem, fetched, notSharedVars>>

\* Line 71.
SaveOpenTmp(w) ==
    LET r == open_wb(inodes, links)
    IN  /\ setters[w].pc = "open"
        /\ inodes' = r.inodes
        /\ links' = r.links
        /\ setters' = [setters EXCEPT ![w].pc = "write", ![w].fd = r.fd]
        /\ UNCHANGED <<mem, fetched, notSharedVars>>

\* Line 72, f.write(blob): a part of the blob is in the file.
SaveWriteTmp(w) ==
    /\ setters[w].pc = "write"
    /\ inodes' = [inodes EXCEPT ![setters[w].fd] = Partial(setters[w].blob)]
    /\ setters' = [setters EXCEPT ![w].pc = "close"]
    /\ UNCHANGED <<links, mem, fetched, notSharedVars>>

\* The end of the with block: the whole blob is in the file.
SaveCloseTmp(w) ==
    /\ setters[w].pc = "close"
    /\ inodes' = [inodes EXCEPT ![setters[w].fd] = setters[w].blob]
    /\ setters' = [setters EXCEPT ![w].pc = "replace"]
    /\ UNCHANGED <<links, mem, fetched, notSharedVars>>

\* Line 73, and set returns or the error of os.replace leaves it.
SaveReplaceTmp(w) ==
    LET r == os_replace(links)
    IN  /\ setters[w].pc = "replace"
        /\ links' = r.links
        /\ setters' = [setters EXCEPT ![w].pc = "done",
                          ![w].outcome = IF r.error = None THEN "returned"
                                         ELSE r.error]
        /\ UNCHANGED <<inodes, mem, fetched, notSharedVars>>

\* load of another process (lines 57-63): the bytes of the file at path.
ReadStore ==
    /\ links.file # 0
    /\ fetched' = [read |-> TRUE, bytes |-> FileAt(links.file),
                   during |-> Cardinality({w \in Setters :
                                 setters[w].pc \notin {"idle", "done"}})]
    /\ UNCHANGED <<inodes, links, mem, setters, notSharedVars>>

NextShared ==
    \/ \E w \in Setters, name \in SecretNames, value \in SecretValues :
          SetAssign(w, name, value)
    \/ \E w \in Setters, salt \in Salts, nonce \in Nonces : SaveEnc(w, salt, nonce)
    \/ \E w \in Setters : SaveOpenTmp(w)
    \/ \E w \in Setters : SaveWriteTmp(w)
    \/ \E w \in Setters : SaveCloseTmp(w)
    \/ \E w \in Setters : SaveReplaceTmp(w)
    \/ ReadStore

(***************************************************************************)
(* Part XI.  The Event Bus and its lock.  self._lock is a threading.Lock:  *)
(* it is not reentrant, a thread that acquires it while one of its own     *)
(* calls holds it waits for ever.  One thread publishes; a handler may     *)
(* call subscribe or publish on the same bus, which puts a new call on     *)
(* the stack of that thread; another thread subscribes.  lock is 0 when    *)
(* the lock is free, the position on the stack of the call that holds it,  *)
(* or -1 when the other thread holds it.                                   *)
(***************************************************************************)
\* What a handler does with the bus before it returns or raises.
Inner(h) ==
    CASE h = "on_update" -> [op |-> "subscribe", topic |-> "registry/updated",
                             handler |-> "on_beat"]
      [] h = "on_fail"   -> [op |-> "publish", topic |-> "heartbeat",
                             handler |-> None]
      [] OTHER           -> [op |-> None, topic |-> None, handler |-> None]

\* The end of "with self._lock:" (lines 12 and 17): the lock is released.
MutKeepsLock(holder) == holder

unlock(holder) == 0

\* A call of publish or of subscribe on the stack of the publishing thread.
Frame(kind, pc, topic, data, handler, handlers, next, at, back) ==
    [kind |-> kind, pc |-> pc, topic |-> topic, data |-> data,
     handler |-> handler, handlers |-> handlers, next |-> next, at |-> at,
     back |-> back]

Top == frames[Len(frames)]

Pop == SubSeq(frames, 1, Len(frames) - 1)

\* The stack with its top call replaced.
WithTop(frame) == [frames EXCEPT ![Len(frames)] = frame]

\* The call on top has returned or raised: the handler below goes on.
Resume(raised) ==
    IF Len(frames) = 1 THEN <<>>
    ELSE [Pop EXCEPT ![Len(frames) - 1].back = IF raised THEN "raised" ELSE "returned"]

Idle == [pc |-> "idle", topic |-> None, handler |-> None]

\* The subscriptions the other thread makes.
OtherSubscribes ==
    {<<"registry/updated", "on_update">>, <<"registry/updated", "on_fail">>,
     <<"heartbeat", "on_beat">>}

InitBusLock ==
    /\ lock = 0
    /\ frames = <<>>
    /\ other = Idle
    /\ finished = <<>>

\* publish(topic, data) is called (lines 14-15).
BusPublish(topic, data) ==
    /\ frames = <<>>
    /\ Len(finished) < MaxPublishes
    /\ frames' = <<Frame("publish", "acquire", topic, data, None, <<>>, 1, 0, None)>>
    /\ UNCHANGED <<lock, other, finished, busVars, notBusLockVars>>

\* "with self._lock:" (lines 11 and 16) in the publishing thread.
FrameAcquire ==
    /\ frames # <<>>
    /\ Top.pc = "acquire"
    /\ lock = 0
    /\ lock' = Len(frames)
    /\ frames' = WithTop([Top EXCEPT !.pc = IF Top.kind = "publish" THEN "copy"
                                            ELSE "append"])
    /\ UNCHANGED <<other, finished, busVars, notBusLockVars>>

\* Line 17 and the end of the with block.
PublishCopy ==
    /\ frames # <<>>
    /\ Top.kind = "publish" /\ Top.pc = "copy"
    /\ frames' = WithTop([Top EXCEPT !.pc = "calling",
                                     !.handlers = snapshot(sub, Top.topic),
                                     !.at = Len(subLog)])
    /\ lock' = unlock(lock)
    /\ UNCHANGED <<other, finished, busVars, notBusLockVars>>

\* Line 20: the next handler of the copy is called.
HandlerEnter ==
    /\ frames # <<>>
    /\ Top.kind = "publish" /\ Top.pc = "calling"
    /\ Top.next <= Len(Top.handlers)
    /\ frames' = WithTop([Top EXCEPT !.pc = "in_handler", !.back = None])
    /\ UNCHANGED <<lock, other, finished, busVars, notBusLockVars>>

\* The handler calls subscribe or publish on the bus.  At the recursion
\* limit of the interpreter the call raises RecursionError in the handler.
HandlerInner ==
    /\ frames # <<>>
    /\ Top.pc = "in_handler" /\ Top.back = None
    /\ LET inner == Inner(Top.handlers[Top.next])
       IN  /\ inner.op # None
           /\ inner.op = "subscribe" => Len(subLog) < MaxSubs
           /\ frames' =
                 IF Len(frames) >= MaxDepth
                 THEN WithTop([Top EXCEPT !.back = "raised"])
                 ELSE Append(frames,
                             Frame(inner.op, "acquire", inner.topic, None,
                                   inner.handler, <<>>, 1, 0, None))
    /\ UNCHANGED <<lock, other, finished, busVars, notBusLockVars>>

\* subscribe of the handler, line 12 and the end of the with block.
FrameAppend ==
    /\ frames # <<>>
    /\ Top.kind = "subscribe" /\ Top.pc = "append"
    /\ sub' = [sub EXCEPT ![Top.topic] = append(@, Top.handler)]
    /\ subLog' = Append(subLog, [topic |-> Top.topic, handler |-> Top.handler])
    /\ lock' = unlock(lock)
    /\ frames' = Resume(FALSE)
    /\ UNCHANGED <<pub, calls, other, finished, notBusLockVars>>

\* The handler returns or raises; lines 21-22 drop what it raises.
HandlerExit ==
    /\ frames # <<>>
    /\ Top.pc = "in_handler"
    /\ LET h == Top.handlers[Top.next]
           raised == HandlerRaises(h) \/ Top.back = "raised"
           error == except_pass(raised)
       IN  /\ Inner(h).op = None \/ Top.back # None
           /\ frames' = IF error = None
                        THEN WithTop([Top EXCEPT !.pc = "calling", !.next = @ + 1])
                        ELSE Resume(TRUE)
           /\ finished' = IF error # None /\ Len(frames) = 1
                          THEN Append(finished,
                                      [topic |-> Top.topic, at |-> Top.at,
                                       called |-> SubSeq(Top.handlers, 1, Top.next),
                                       error |-> error])
                          ELSE finished
    /\ UNCHANGED <<lock, other, busVars, notBusLockVars>>

\* publish returns: the copy is exhausted.
FrameReturn ==
    /\ frames # <<>>
    /\ Top.kind = "publish" /\ Top.pc = "calling"
    /\ Top.next > Len(Top.handlers)
    /\ frames' = Resume(FALSE)
    /\ finished' = IF Len(frames) = 1
                   THEN Append(finished, [topic |-> Top.topic, at |-> Top.at,
                                          called |-> Top.handlers, error |-> None])
                   ELSE finished
    /\ UNCHANGED <<lock, other, busVars, notBusLockVars>>

\* Another thread calls subscribe(topic, handler) and gets the lock (line 11).
OtherSubscribe(topic, handler) ==
    /\ other.pc = "idle"
    /\ Len(subLog) < MaxSubs
    /\ lock = 0
    /\ lock' = -1
    /\ other' = [pc |-> "append", topic |-> topic, handler |-> handler]
    /\ UNCHANGED <<frames, finished, busVars, notBusLockVars>>

\* Line 12 and the end of the with block.
OtherAppend ==
    /\ other.pc = "append"
    /\ Len(subLog) < MaxSubs
    /\ sub' = [sub EXCEPT ![other.topic] = append(@, other.handler)]
    /\ subLog' = Append(subLog, [topic |-> other.topic, handler |-> other.handler])
    /\ lock' = unlock(lock)
    /\ other' = Idle
    /\ UNCHANGED <<pub, calls, frames, finished, notBusLockVars>>

NextBusLock ==
    \/ \E topic \in Topics : BusPublish(topic, "modules")
    \/ FrameAcquire
    \/ PublishCopy
    \/ HandlerEnter
    \/ HandlerInner
    \/ FrameAppend
    \/ HandlerExit
    \/ FrameReturn
    \/ \E choice \in OtherSubscribes : OtherSubscribe(choice[1], choice[2])
    \/ OtherAppend

(***************************************************************************)
(* Part XII.  The runtime on a source change: src/interface/rest_api.py.   *)
(* The module makes one registry, one bus and one watcher, runs a first    *)
(* auto_discover and starts the watcher with on_code_change as its         *)
(* callback.  on_code_change runs in the thread of the watcher, statement  *)
(* by statement; the routes of the interface only read the registry.  The  *)
(* listing of the plugin folders is read at each discovery.                *)
(***************************************************************************)
\* The statements of on_code_change (lines 28-31), in their order.
MutPublishFirst == <<"publish", "discover", "log">>

on_code_change == <<"discover", "publish", "log">>

\* Where on_code_change is (at = 0: not running), whether the discovery of
\* this call is complete, and the counts of changes detected, of calls that
\* ended in an exception and of events published.
Hook(at, discovered, booted, detected, failed, published) ==
    [at |-> at, discovered |-> discovered, booted |-> booted,
     detected |-> detected, failed |-> failed, published |-> published]

InitRuntime ==
    /\ hook = Hook(0, FALSE, FALSE, 0, 0, 0)
    /\ lastEvent = [topic |-> None, modules |-> {}, discovered |-> FALSE]

\* Line 20: ORCH.auto_discover() when the module is imported.
Boot(listdir) ==
    LET r == auto_discover(registry, FoldersDefault, listdir)
    IN  /\ ~hook.booted
        /\ Len(log_file) + Len(r.lines) <= MaxLog
        /\ registry' = r.registry
        /\ log_file' = log_file \o r.lines
        /\ hook' = [hook EXCEPT !.booted = TRUE]
        /\ UNCHANGED <<lastCall, lastEvent, watchVars, notRuntimeVars>>

\* Line 34: WATCH.start().
RuntimeStart == hook.booted /\ WatchStart

\* The poll of the watcher (auto_watcher.py:33-38): a change starts
\* on_code_change.
RuntimePoll ==
    LET snap == _snapshot(fs)
        differed == Cardinality({path \in DOMAIN snap : snap[path] # mtimes[path]})
        before == lastPoll.raised \/ lastPoll.after_failure
    IN  /\ watch = "sleep"
        /\ IF snap # mtimes
           THEN /\ hook.detected < MaxChanges
                /\ mtimes' = snap
                /\ lastPoll' = Poll(differed, 1, FALSE, before)
                /\ watch' = "calling"
                /\ hook' = [hook EXCEPT !.at = 1, !.discovered = FALSE,
                                        !.detected = @ + 1]
           ELSE /\ lastPoll' = Poll(0, 0, FALSE, before)
                /\ watch' = "top"
                /\ UNCHANGED <<mtimes, hook>>
        /\ UNCHANGED <<fs, watch_stop, lastEvent, orchVars, notRuntimeVars>>

\* The statement of on_code_change that is next.
Statement == IF hook.at = 0 THEN None ELSE on_code_change[hook.at]

\* After a statement: the next one, or the return to the loop of the watcher.
Advance == [hook EXCEPT !.at = IF @ = Len(on_code_change) THEN 0 ELSE @ + 1]

Returned == IF hook.at = Len(on_code_change) THEN "top" ELSE watch

\* Line 28: ORCH.auto_discover().  When os.listdir raises, the exception
\* leaves on_code_change and the watcher drops it (auto_watcher.py:39-40).
Rediscover(listdir, oserror) ==
    LET r == auto_discover(registry, FoldersDefault, listdir)
    IN  /\ Statement = "discover"
        /\ IF oserror
           THEN /\ hook' = [hook EXCEPT !.at = 0, !.failed = @ + 1]
                /\ watch' = IF on_change_except(TRUE) = None THEN "top" ELSE "dead"
                /\ lastPoll' = [lastPoll EXCEPT !.raised = TRUE]
                /\ UNCHANGED <<registry, log_file>>
           ELSE /\ Len(log_file) + Len(r.lines) <= MaxLog
                /\ registry' = r.registry
                /\ log_file' = log_file \o r.lines
                /\ hook' = [Advance EXCEPT !.discovered = TRUE]
                /\ watch' = Returned
                /\ UNCHANGED lastPoll
        /\ UNCHANGED <<lastCall, lastEvent, fs, mtimes, watch_stop, notRuntimeVars>>

\* Line 29: EVENTS.publish("registry/updated", {"modules": ORCH.list_modules()}).
PublishUpdate ==
    /\ Statement = "publish"
    /\ lastEvent' = [topic |-> "registry/updated",
                     modules |-> list_modules(registry),
                     discovered |-> hook.discovered]
    /\ hook' = [Advance EXCEPT !.published = @ + 1]
    /\ watch' = Returned
    /\ UNCHANGED <<orchVars, fs, mtimes, watch_stop, lastPoll, notRuntimeVars>>

\* Lines 30-31: the line "AUTO: registry refreshed due to code change".
LogRefresh ==
    /\ Statement = "log"
    /\ log_file' = IF Len(log_file) < MaxLog
                   THEN Append(log_file, LogLine("AUTO: registry refreshed", FALSE))
                   ELSE log_file
    /\ hook' = Advance
    /\ watch' = Returned
    /\ UNCHANGED <<registry, lastCall, lastEvent, fs, mtimes, watch_stop, lastPoll,
                   notRuntimeVars>>

\* A source file changes while the runtime is up.
RuntimeWrite(path, mtime) ==
    /\ hook.booted
    /\ hook.detected < MaxChanges
    /\ WriteFile(path, mtime)

\* The plugin folders of the runtime: modules come and go in plugins.
RuntimeDisks == {disk \in Disks : disk.skills = DirFixed.skills}

NextRuntime ==
    \/ \E disk \in RuntimeDisks : \E listdir \in Listings(disk) : Boot(listdir)
    \/ RuntimeStart
    \/ WatchInit
    \/ WatchCheck
    \/ RuntimePoll
    \/ \E disk \in RuntimeDisks : \E listdir \in Listings(disk) :
          \E oserror \in BOOLEAN : Rediscover(listdir, oserror)
    \/ PublishUpdate
    \/ LogRefresh
    \/ \E mtime \in Mtimes : RuntimeWrite("plugins/a.py", mtime)
    \/ WatchStop

(***************************************************************************)
(* The specifications.                                                      *)
(***************************************************************************)
Init ==
    /\ InitOrch /\ InitKeyStore /\ InitSave /\ InitGateway /\ InitTaskQueue
    /\ InitEventBus /\ InitScheduler /\ InitWatcher /\ InitRace /\ InitShared /\ InitBusLock /\ InitRuntime

NextOrch ==
    \/ \E name \in Names, path \in Paths : Register(name, path)
    \/ \E folders \in FolderArgs, disk \in Disks :
          \E listdir \in Listings(disk) : AutoDiscover(folders, listdir)
    \/ \E m \in Names, f \in FuncNames, a \in Args : Execute(m, f, a)
    \/ ListModules
    \/ \E m \in Names : InspectModule(m)

SpecOrch == Init /\ [][NextOrch]_vars

\* The registry with an adversary that alters the stored record of a module.
NextTamper ==
    \/ \E path \in Paths : Register("pricer", path)
    \/ \E f \in FuncNames, a \in Args : Execute("pricer", f, a)
    \/ \E signature \in Signatures : TamperSignature("pricer", signature)
    \/ \E path \in Paths : TamperPath("pricer", path)

SpecTamper == Init /\ [][NextTamper]_vars

SpecKeyStore == Init /\ [][NextKeyStore]_vars

SpecSave == Init /\ [][NextSave]_vars

SpecGateway == Init /\ [][NextGateway]_vars

SpecTaskQueue == Init /\ [][NextTaskQueue]_vars

\* The pool when stop is never called and no two entries need their
\* callables compared: the callable that raises is put with priority 1, the
\* one that returns with priority 5.  The threads are scheduled fairly.
NextPool ==
    \/ put("boom", 1)
    \/ put("job", 5)
    \/ Tick
    \/ \E w \in Workers : WorkerCheck(w)
    \/ \E w \in Workers : WorkerGet(w)
    \/ \E w \in Workers : WorkerRun(w)

SpecPool ==
    /\ Init
    /\ [][NextPool]_vars
    /\ \A w \in Workers : WF_vars(WorkerStep(w))

SpecEventBus == Init /\ [][NextEventBus]_vars

\* The three loops and their stop.  The components share no state, so a run
\* follows one of them at a time, the other two being as constructed.  The
\* threads are scheduled fairly and time passes.
LoopStep == LoopTick \/ LoopScan \/ JobDone

WatchStep == WatchInit \/ WatchCheck \/ \E raises \in BOOLEAN : WatchPoll(raises)

OnlyScheduler == InitWatcher /\ InitTaskQueue

OnlyWatcher == InitScheduler /\ InitTaskQueue

OnlyPool == InitScheduler /\ InitWatcher

\* The jobs are added before the scheduler is started, as the REST
\* interface does (rest_api.py:38-39), and the clock is followed from the
\* start on.
StopClock == loop.pc # "new" /\ ClockTick

StopScheduler ==
    \/ \E a \in JobArgs : loop.pc = "new" /\ add(a.name, a.every_sec, a.fn)
    \/ start
    \/ LoopStep
    \/ SchedStop
    \/ StopClock

StopWatcher ==
    \/ \E t \in Mtimes \ {0} : WriteFile("skills/b.py", t)
    \/ WatchStart
    \/ WatchStep
    \/ WatchStop

\* The tasks put return.
StopPool ==
    \/ put("job", 5)
    \/ \E w \in Workers : WorkerStep(w)
    \/ Stop

NextStop ==
    \/ OnlyScheduler /\ StopScheduler
    \/ OnlyWatcher /\ StopWatcher
    \/ OnlyPool /\ StopPool

SpecStop ==
    /\ Init
    /\ [][NextStop]_vars
    /\ WF_vars(OnlyScheduler /\ LoopStep)
    /\ WF_vars(OnlyScheduler /\ StopClock)
    /\ WF_vars(OnlyWatcher /\ WatchStep)
    /\ \A w \in Workers : WF_vars(OnlyPool /\ WorkerStep(w))

SpecScheduler == Init /\ [][NextScheduler]_vars

SpecWatcher == Init /\ [][NextWatcher]_vars

SpecRace == Init /\ [][NextRace]_vars

SpecShared == Init /\ [][NextShared]_vars

SpecBusLock == Init /\ [][NextBusLock]_vars

SpecRuntime == Init /\ [][NextRuntime]_vars

(***************************************************************************)
(* Claims on the Secure Module Registry.                                   *)
(***************************************************************************)
RecordVerifies(reg, name) ==
    name \in DOMAIN reg /\ sign(reg[name].path) = reg[name].signature

\* C1: execute invokes the module function only if sign(record.path) equals
\* record.signature for the stored record at call time; a record whose
\* signature or path was altered after register no longer verifies, and
\* execute on a record that does not verify fails with the signature
\* mismatch error, runs nothing and returns nothing.
C1_InvokedOnlyIfVerified ==
    [][/\ lastCall'.op = "execute" =>
            /\ lastCall'.invoked # <<>> => RecordVerifies(registry, lastCall'.name)
            /\ (/\ lastCall'.name \in DOMAIN registry
                /\ ~RecordVerifies(registry, lastCall'.name))
               => /\ lastCall'.outcome = "raised"
                  /\ lastCall'.error = "Signature mismatch"
                  /\ lastCall'.invoked = <<>>
                  /\ lastCall'.result = NoResult
       /\ \A n \in DOMAIN registry :
            (/\ lastCall'.op = "none"
             /\ RecordVerifies(registry, n)
             /\ registry'[n] # registry[n]
             /\ \/ registry'[n].path = registry[n].path
                \/ registry'[n].signature = registry[n].signature)
            => ~RecordVerifies(registry', n)
      ]_vars

\* C1's case: execute was refused on a registered record whose signature
\* does not match its path.
C1_Witness ==
    /\ lastCall.op = "execute"
    /\ lastCall.error = "Signature mismatch"
    /\ lastCall.name \in DOMAIN registry
    /\ ~RecordVerifies(registry, lastCall.name)

\* C2: execute on a name that is not in the registry (no register of it ever
\* succeeded) fails with the not-registered error: nothing is invoked, no
\* result is returned and the registry is unchanged.
C2_UnregisteredFails ==
    [][(lastCall'.op = "execute" /\ lastCall'.name \notin DOMAIN registry)
       => /\ lastCall'.outcome = "raised"
          /\ lastCall'.error = "Module not registered"
          /\ lastCall'.invoked = <<>>
          /\ lastCall'.result = NoResult
          /\ registry' = registry
      ]_vars

\* C2's case: an unregistered name was executed while another module is
\* registered.
C2_Witness ==
    /\ lastCall.op = "execute"
    /\ lastCall.error = "Module not registered"
    /\ lastCall.name \notin DOMAIN registry
    /\ registry # EmptyMap

\* C3: a successful register(name, path) stores the record of path under
\* name; execute(name, func, arg) on a verified record whose module has func
\* as a callable invokes func of that module exactly once with arg, and
\* returns its return value, or raises its failure and returns nothing.
C3_ExecuteReturnsResult ==
    [][/\ (lastCall'.op = "register" /\ import_module(lastCall'.target) = "ok")
          => /\ lastCall'.name \in DOMAIN registry'
             /\ registry'[lastCall'.name].path = lastCall'.target
             /\ RecordVerifies(registry', lastCall'.name)
       /\ (/\ lastCall'.op = "execute"
           /\ RecordVerifies(registry, lastCall'.name)
           /\ ModuleAttr(registry[lastCall'.name].path, lastCall'.target)
                \in {"function", "raising"})
          => LET path == registry[lastCall'.name].path
                 kind == ModuleAttr(path, lastCall'.target)
             IN  /\ lastCall'.invoked = << <<path, lastCall'.target, lastCall'.arg>> >>
                 /\ kind = "function"
                    => /\ lastCall'.outcome = "returned"
                       /\ lastCall'.result = <<"price", path, lastCall'.arg>>
                 /\ kind = "raising"
                    => /\ lastCall'.outcome = "raised"
                       /\ lastCall'.error = "function raised"
                       /\ lastCall'.result = NoResult
      ]_vars

\* C3's case: a registered module's function was invoked once and its value
\* returned.
C3_Witness ==
    /\ lastCall.op = "execute"
    /\ lastCall.outcome = "returned"
    /\ Len(lastCall.invoked) = 1
    /\ lastCall.result = <<"price", registry[lastCall.name].path, lastCall.arg>>

\* C4: execute on a registered, verified module whose named attribute is
\* absent or is not callable fails with the function-not-found error and
\* invokes nothing.
C4_FunctionNotFound ==
    [][(/\ lastCall'.op = "execute"
        /\ RecordVerifies(registry, lastCall'.name)
        /\ import_module(registry[lastCall'.name].path) = "ok"
        /\ ModuleAttr(registry[lastCall'.name].path, lastCall'.target)
             \in {"absent", "value"})
       => /\ lastCall'.outcome = "raised"
          /\ lastCall'.error = "Function not found"
          /\ lastCall'.invoked = <<>>
          /\ lastCall'.result = NoResult
      ]_vars

\* C4's case: the attribute exists and is not callable.
C4_Witness ==
    /\ lastCall.op = "execute"
    /\ lastCall.error = "Function not found"
    /\ RecordVerifies(registry, lastCall.name)
    /\ ModuleAttr(registry[lastCall.name].path, lastCall.target) = "value"

\* The folders a call of auto_discover scans, and the modules it finds.
Scanned(call) ==
    {f \in Range(IF call.target.given THEN call.target.value
                 ELSE <<"plugins", "skills">>) : f \in DOMAIN call.arg}

Candidates(call, name) ==
    {DottedPath(f, name) : f \in {g \in Scanned(call) : PyFile(name) \in call.arg[g]}}

\* C5: a register whose import fails returns normally and leaves the
\* registry as it was; auto_discover returns normally, and after it every
\* module name with an importable file in the scanned folders is registered
\* with a verifying record of one of those files, however many other files
\* fail and in whatever order the files are scanned, while a name none of
\* whose files imports keeps the record it had.
C5_FailedImportIsolated ==
    [][/\ (lastCall'.op = "register" /\ import_module(lastCall'.target) # "ok")
          => /\ lastCall'.outcome = "returned"
             /\ registry' = registry
       /\ lastCall'.op = "auto_discover"
          => /\ lastCall'.outcome = "returned"
             /\ \A n \in Names :
                  LET ok == {p \in Candidates(lastCall', n) : import_module(p) = "ok"}
                  IN  /\ ok # {}
                         => /\ RecordVerifies(registry', n)
                            /\ registry'[n].path \in ok
                      /\ ok = {}
                         => /\ n \in DOMAIN registry' <=> n \in DOMAIN registry
                            /\ n \in DOMAIN registry => registry'[n] = registry[n]
      ]_vars

\* C5's case: a scan met a module that fails to import and one that imports,
\* and the latter is registered.
C5_Witness ==
    /\ lastCall.op = "auto_discover"
    /\ \E f \in Scanned(lastCall) :
          {PyFile("broken"), PyFile("pricer")} \subseteq lastCall.arg[f]
    /\ RecordVerifies(registry, "pricer")
    /\ \E i \in DOMAIN log_file : log_file[i].level = "ERROR"

(***************************************************************************)
(* Claims on the Encrypted Key Store.                                      *)
(***************************************************************************)
\* The file is as the last completed set wrote it.
Intact == lastSet.done /\ keyfile = lastSet.blob

\* The passphrase a call works with is the one of the last completed set.
SamePassphrase(op) == Resolve(op.passphrase, environ) = lastSet.passphrase

\* C6: after set(name, value, passphrase) has completed, a store that is not
\* loaded and has an empty cache, and reads the file that set wrote with the
\* same passphrase, returns exactly value from get(name): whether get itself
\* loads the file, or load does and get follows on the loaded store.
C6_RoundTripAcrossRestart ==
    [][/\ (/\ lastOp'.op = "get"
           /\ ~loaded /\ cache = EmptyMap
           /\ Intact /\ SamePassphrase(lastOp')
           /\ lastOp'.name = lastSet.name)
          => /\ lastOp'.outcome = "returned"
             /\ lastOp'.readFile
             /\ lastOp'.result = lastSet.value
       /\ (/\ lastOp'.op = "load"
           /\ ~loaded /\ cache = EmptyMap
           /\ Intact /\ SamePassphrase(lastOp'))
          => /\ lastOp'.outcome = "returned"
             /\ loaded'
             /\ lastSet.name \in DOMAIN cache'
             /\ cache'[lastSet.name] = lastSet.value
       /\ (lastOp'.op = "get" /\ loaded)
          => /\ lastOp'.outcome = "returned"
             /\ lastOp'.result = IF lastOp'.name \in DOMAIN cache
                                 THEN cache[lastOp'.name] ELSE NoValue
      ]_vars

\* C6's case: a get decrypted the file of the last set in a new process and
\* returned the value that was set.
C6_Witness ==
    /\ lastOp.op = "get"
    /\ lastOp.readFile
    /\ Intact
    /\ lastOp.name = lastSet.name
    /\ lastOp.result = lastSet.value
    /\ lastOp.result \in SecretValues

\* C7: when the stored blob differs from the one set wrote (in its magic,
\* salt, nonce, ciphertext or tag), every call that reads the file with the
\* original passphrase fails with the error of _dec and leaves cache and
\* flag as they were; and whenever a read of the file succeeds, the cache
\* holds the secrets that were stored and nothing else.
C7_TamperDetected ==
    [][lastOp'.readFile =>
         /\ lastSet.done
         /\ (keyfile # lastSet.blob /\ SamePassphrase(lastOp'))
            => /\ lastOp'.outcome = "raised"
               /\ lastOp'.error \in {"Invalid keystore file.", "MAC check failed"}
               /\ cache' = cache
               /\ loaded' = loaded
               /\ keyfile' = keyfile
         /\ lastOp'.outcome = "returned"
            => /\ keyfile = lastSet.blob
               /\ lastOp'.op \in {"load", "get", "items"}
                  => cache' = Loads(lastSet.blob.ct.data)
               /\ lastOp'.op = "set"
                  => cache' = Put(Loads(lastSet.blob.ct.data),
                                  lastOp'.name, lastOp'.value)
      ]_vars

\* C7's case: a read of an altered file with the original passphrase was
\* refused.
C7_Witness ==
    /\ lastOp.op \in {"load", "get"}
    /\ lastOp.readFile
    /\ lastOp.outcome = "raised"
    /\ lastSet.done
    /\ keyfile # lastSet.blob
    /\ SamePassphrase(lastOp)
    /\ cache = EmptyMap /\ ~loaded

\* C8: set with no passphrase argument and no passphrase in the environment
\* (or only empty ones) fails with the missing-passphrase error; cache,
\* loaded flag and file are as before the call.
C8_SetNeedsPassphrase ==
    [][(lastOp'.op = "set" /\ Falsy(Resolve(lastOp'.passphrase, environ)))
       => /\ lastOp'.outcome = "raised"
          /\ lastOp'.error = "Missing passphrase"
          /\ cache' = cache
          /\ loaded' = loaded
          /\ keyfile' = keyfile
          /\ parent' = parent
          /\ ~lastOp'.readFile
      ]_vars

\* C8's case: set was refused for want of a passphrase in a new process
\* with a store file on disk.
C8_Witness ==
    /\ lastOp.op = "set"
    /\ lastOp.error = "Missing passphrase"
    /\ Falsy(Resolve(lastOp.passphrase, environ))
    /\ keyfile.exists
    /\ ~loaded

\* The store was loaded without a passphrase while the file of the last set
\* was on disk: nothing of it has been decrypted.
Deferred == loaded /\ cache = EmptyMap /\ Intact

\* C9: when the file exists and the store was first loaded with no
\* passphrase available, a later load or get with the correct passphrase
\* decrypts the file and makes the persisted secrets available.
C9_DeferredDecrypt ==
    [][(/\ lastOp'.op \in {"load", "get"}
        /\ Deferred
        /\ ~Falsy(lastOp'.passphrase)
        /\ lastOp'.passphrase = lastSet.passphrase)
       => /\ lastSet.name \in DOMAIN cache'
          /\ cache'[lastSet.name] = lastSet.value
          /\ (lastOp'.op = "get" /\ lastOp'.name = lastSet.name)
             => lastOp'.result = lastSet.value
      ]_vars

\* C10: on a loaded store every load, with any passphrase or none, returns
\* without reading the file and leaves cache, flag and file as they are.
C10_LoadIdempotent ==
    [][(lastOp'.op = "load" /\ loaded)
       => /\ lastOp'.outcome = "returned"
          /\ ~lastOp'.readFile
          /\ cache' = cache
          /\ loaded'
          /\ keyfile' = keyfile
          /\ parent' = parent
      ]_vars

\* C10's case: a second load with a passphrase on a store that holds
\* secrets, with the file on disk.
C10_Witness ==
    /\ lastOp.op = "load"
    /\ lastOp.passphrase \in Passphrases
    /\ ~lastOp.readFile
    /\ loaded
    /\ cache # EmptyMap
    /\ keyfile.exists

\* The file at path holds a whole blob: one that some passphrase decrypts
\* to a JSON text.
Whole(blob) ==
    \E p \in Passphrases : _dec(p, blob).error = None /\ _dec(p, blob).plain.wellformed

\* C11: at every step of a set, and after a crash at any step of _save, the
\* file at path is absent or a whole blob, and a step changes it only from
\* the previous blob to the complete new blob of the set in progress; it
\* never holds a part of a blob.
C11_AtomicPersistence ==
    [][/\ keyfile' = Absent \/ Whole(keyfile')
       /\ keyfile' # keyfile
          => /\ saving.pc = "replace"
             /\ keyfile' = saving.blob
             /\ keyfile' = _save(cache, saving.passphrase, keyfile'.salt,
                                 keyfile'.nonce)
       /\ (lastOp'.op = "load" /\ lastOp'.readFile /\ lastSet.done
           /\ SamePassphrase(lastOp'))
          => lastOp'.outcome = "returned" /\ cache' = Loads(lastSet.blob.ct.data)
      ]_vars

\* C11's case: the process died while the temporary file held a part of
\* the new blob, and the new process read the previous blob from the file.
C11_Witness ==
    /\ tmpfile.exists
    /\ ~Whole(tmpfile)
    /\ saving.pc = "idle"
    /\ keyfile = lastSet.blob
    /\ Whole(keyfile)
    /\ lastOp.op = "load"
    /\ lastOp.readFile
    /\ lastOp.outcome = "returned"
    /\ cache # EmptyMap

(***************************************************************************)
(* Claims on the Layered Cipher Gateway.                                   *)
(***************************************************************************)
\* The packet arrives as it was sealed, at an instance with the keys of the
\* one that sealed it.
AsSealed == wire.present /\ wire.packet = wire.sealed /\ wire.keys = gwKeys

\* The digest field of the packet is the digest of its outer ciphertext.
DigestMatches ==
    wire.packet.b64.hash = whirlpool(b64decode(wire.packet.b64.data))

\* C12: for every input x and an instance holding fixed keys, unseal of the
\* packet that seal(x) returned returns x.
C12_SealUnsealRoundTrip ==
    [][(lastGw'.op = "unseal" /\ AsSealed)
       => /\ lastGw'.outcome = "returned"
          /\ lastGw'.value = wire.input
      ]_vars

\* C13: unseal compares the digest before it decrypts: when the digest
\* field of the packet is not the digest of its outer ciphertext, unseal
\* raises the integrity error and has performed neither the Twofish nor the
\* AES decryption; whenever it has decrypted, the digest had matched.
C13_DigestBeforeDecrypt ==
    [][lastGw'.op = "unseal"
       => /\ ~DigestMatches
             => /\ lastGw'.outcome = "raised"
                /\ lastGw'.error = "Integrity check failed"
                /\ lastGw'.steps = <<>>
          /\ lastGw'.steps # <<>> => DigestMatches
      ]_vars

\* C13's case: the digest field of a sealed packet was altered, the rest
\* left as sealed, and unseal refused it at an instance with the right keys.
C13_Witness ==
    /\ lastGw.op = "unseal"
    /\ lastGw.error = "Integrity check failed"
    /\ lastGw.steps = <<>>
    /\ wire.keys = gwKeys
    /\ wire.packet.b64.data = wire.sealed.b64.data
    /\ wire.packet.b64.iv = wire.sealed.b64.iv
    /\ wire.packet.b64.hash # wire.sealed.b64.hash

Dequeues(w) == threads[w].pc = "get" /\ threads'[w].pc = "run"

\* Entry a is due before entry b: lower priority number, or the same and
\* put earlier.  Two entries of the same callable, priority and timestamp
\* are the same call and may come in either order.
DueBefore(a, b) ==
    \/ a.prio < b.prio
    \/ a.prio = b.prio /\ a.id <= b.id
    \/ a.prio = b.prio /\ a.ts = b.ts /\ a.fn = b.fn

\* C15: whenever a worker dequeues, it takes the queued task with the
\* lowest priority number and, among those of equal priority, the one put
\* first, also when two tasks were put with the same timestamp.
C15_DequeueOrder ==
    [][\A w \in Workers :
         Dequeues(w)
         => \A i \in DOMAIN heap : DueBefore(threads'[w].task, heap[i])
      ]_vars

\* The places task id is at: in the queue, with a worker, executed.
Places(id) ==
    Cardinality({i \in DOMAIN heap : heap[i].id = id})
    + Cardinality({w \in Workers : threads[w].pc = "run" /\ threads[w].task.id = id})
    + Cardinality({i \in DOMAIN executed : executed[i] = id})

\* C16: every task put is consumed exactly once by exactly one worker: at
\* every moment it is queued, or with one worker, or executed once; it is
\* never executed twice and, while the queue is not stopped, never lost.
C16_ExactlyOnce ==
    /\ \A id \in 1..nextId :
          Cardinality({i \in DOMAIN executed : executed[i] = id}) <= 1
    /\ ~shutdown_flag => \A id \in 1..nextId : Places(id) = 1

\* Every task put so far has been executed.
AllExecuted ==
    \A id \in 1..nextId : \E i \in DOMAIN executed : executed[i] = id

\* C17: if stop is never called and every callable finishes, by returning
\* or by raising, every task put is eventually executed: with finitely many
\* puts, again and again all tasks put so far have been executed.
C17_EveryTaskExecuted == []<>(shutdown_flag \/ AllExecuted)

\* C18: after stop has set the flag no worker takes a task off the queue: a
\* worker executes at most the task it already had, and the tasks queued at
\* shutdown are never executed.
C18_NoDequeueAfterStop ==
    [][shutdown_flag => \A w \in Workers : ~Dequeues(w)]_vars

(***************************************************************************)
(* Claims on the Event Bus.                                                *)
(***************************************************************************)
\* The handlers subscribed to topic by the first n calls of subscribe, in
\* the order of these calls.
RECURSIVE SubscribedTo(_, _)
SubscribedTo(topic, n) ==
    IF n = 0 THEN <<>>
    ELSE IF subLog[n].topic = topic
         THEN Append(SubscribedTo(topic, n - 1), subLog[n].handler)
         ELSE SubscribedTo(topic, n - 1)

\* C19: for one publish on a topic the handlers subscribed to the topic
\* when the publish began are called in the order in which they were
\* subscribed, each with the data published: the calls made so far are the
\* first of them in that order, and when publish has returned all of them
\* have been called.
C19_SubscriptionOrder ==
    pub.topic # None =>
        LET due == SubscribedTo(pub.topic, pub.at)
        IN  /\ Len(calls) <= Len(due)
            /\ \A i \in DOMAIN calls :
                  /\ calls[i].handler = due[i]
                  /\ calls[i].data = pub.data
            /\ pub.pc = "idle" => Len(calls) = Len(due)

\* A publish of data has returned after calling two different handlers, the
\* first of which raised, while a handler of the other topic was subscribed
\* between them.
C19_Witness ==
    /\ pub.pc = "idle"
    /\ pub.data = "modules"
    /\ Len(calls) = 2
    /\ calls[1].raised
    /\ calls[2].handler # calls[1].handler
    /\ Len(subLog) = 3
    /\ subLog[2].topic # pub.topic

\* C20: one publish calls each handler at most once, however often the
\* handler was subscribed to the topic, and calls no handler that was never
\* subscribed to the topic.
C20_AtMostOncePerPublish ==
    /\ \A h \in Handlers :
          Cardinality({i \in DOMAIN calls : calls[i].handler = h}) <= 1
    /\ \A i \in DOMAIN calls :
          \E n \in DOMAIN subLog :
              /\ subLog[n].topic = pub.topic
              /\ subLog[n].handler = calls[i].handler

\* C21: when a handler raises during publish, every handler subscribed to
\* the topic after it is still called with the same data, and publish
\* returns to the publisher without raising.
C21_FailureIsolation ==
    (pub.topic # None /\ pub.pc = "idle") =>
        LET due == SubscribedTo(pub.topic, pub.at)
        IN  /\ pub.error = None
            /\ \A i \in DOMAIN calls :
                  calls[i].raised =>
                      \A j \in (i + 1)..Len(due) :
                          /\ j \in DOMAIN calls
                          /\ calls[j].handler = due[j]
                          /\ calls[j].data = pub.data

\* A publish has returned whose second handler of three raised.
C21_Witness ==
    /\ pub.pc = "idle"
    /\ Len(calls) = 3
    /\ ~calls[1].raised
    /\ calls[2].raised
    /\ ~calls[3].raised

(***************************************************************************)
(* Claims on the Scheduler.                                                *)
(***************************************************************************)
\* The thread of _loop is alive and inside its loop.
LoopRuns == loop.pc \in {"top", "scan", "call"}

\* In this step the callable of job id is called.
Fires(id) == loop.pc = "scan" /\ loop'.pc = "call" /\ loop'.job = id

\* In this step the callable of job id finishes.
Finishes(id) == loop.pc = "call" /\ loop.job = id /\ loop'.pc # "call"

\* C22: a job callable that raises does not crash the loop and does not
\* block rescheduling: when it has raised, the next_at of the job is set
\* anew and the thread of the loop goes on with the other jobs.
C22_RaisingJobIsolated ==
    [][\A id \in DOMAIN jobObjs :
          (Finishes(id) /\ JobRaises(jobObjs[id].fn)) =>
              /\ jobObjs'[id].next_at = clock + jobObjs[id].every_sec
              /\ LoopRuns']_vars

\* C23: a job is called only at a tick whose reading of the clock is at or
\* after next_at, never before the time it was added plus its interval;
\* when the call has finished next_at is the time of the finish plus the
\* interval; and a job that was called before is called again no sooner
\* than the interval after the end of that call.
C23_FiresWhenDue ==
    [][\A id \in DOMAIN jobObjs :
          /\ Fires(id) =>
                /\ loop.now >= jobObjs[id].next_at
                /\ clock >= jobObjs[id].next_at
                /\ clock >= jobObjs[id].added + jobObjs[id].every_sec
                /\ jobObjs[id].fired =>
                      clock >= jobObjs[id].ended + jobObjs[id].every_sec
          /\ Finishes(id) =>
                jobObjs'[id].next_at = clock + jobObjs[id].every_sec]_vars

\* A job is being called for at least the second time, at a tick later than
\* the one that read the clock.
C23_Witness ==
    /\ loop.pc = "call"
    /\ jobObjs[loop.job].ended > 0
    /\ jobObjs[loop.job].began > jobObjs[loop.job].ended
    /\ clock > loop.now

\* Job id is kept waiting by the callable of another job: that callable is
\* running, the time of id came while it ran and is past, and id, still
\* in the dict, has not been called.
Waiting(id) ==
    /\ loop.pc = "call"
    /\ loop.job # id
    /\ \E i \in DOMAIN jobs : jobs[i].id = id
    /\ jobObjs[id].next_at >= jobObjs[loop.job].began
    /\ clock > jobObjs[id].next_at

\* C24: a slow job never affects other jobs: while the callable of one job
\* runs, no other job whose time has come is kept waiting for it.
C24_SlowJobDelaysOnlyItself == \A id \in DOMAIN jobObjs : ~Waiting(id)

\* The job of the claim on drift: interval 1, callable taking 3 seconds.
Drifting(id) == jobObjs[id].every_sec = 1 /\ Takes(jobObjs[id].fn) = 3

\* C25, as stated: a job with interval 1 whose callable takes 3 seconds is
\* called again no sooner than 3 seconds after that callable returned.
C25_ThreeSecondsAfterReturn ==
    [][\A id \in DOMAIN jobObjs :
          (Fires(id) /\ Drifting(id) /\ jobObjs[id].fired) =>
              clock >= jobObjs[id].ended + 3]_vars

\* C25, amended: a job with interval 1 whose callable takes 3 seconds is
\* called again no sooner than 1 second, its interval, after that callable
\* returned, so no sooner than 4 seconds after the call before began: it is
\* not called on the cadence of 1 second it was added with.
C25_DriftTolerance ==
    [][\A id \in DOMAIN jobObjs :
          (Fires(id) /\ Drifting(id) /\ jobObjs[id].fired) =>
              /\ clock >= jobObjs[id].ended + 1
              /\ clock >= jobObjs[id].began + 4]_vars

\* The job on interval 1 whose callable takes 3 seconds is being called again.
C25_Witness ==
    /\ loop.pc = "call"
    /\ Drifting(loop.job)
    /\ jobObjs[loop.job].ended > 0
    /\ jobObjs[loop.job].began > jobObjs[loop.job].ended

(***************************************************************************)
(* Claims on the Source Watcher.                                           *)
(***************************************************************************)
\* In this step the watcher polls.
Polls == watch = "sleep" /\ watch' # "sleep"

\* The .py files whose state now is not the one the stored snapshot holds:
\* added, removed, or with another modification time.
ChangedFiles == {path \in DOMAIN mtimes : fs[path] # mtimes[path]}

\* C26: at each poll on_change is called exactly once if the new snapshot
\* differs from the stored one in any way, for one file or for many, and
\* is not called if the snapshots are equal.
C26_OneCallPerChangedPoll ==
    [][Polls =>
          /\ ChangedFiles # {} => lastPoll'.called = 1
          /\ ChangedFiles = {} => lastPoll'.called = 0]_vars

\* A poll has called on_change once for two files that changed, one of them
\* removed.
C26_Witness ==
    /\ lastPoll.differed = 2
    /\ lastPoll.called = 1
    /\ mtimes["plugins/a.py"] = 0
    /\ mtimes["skills/b.py"] = 2

\* C27: an on_change that raises does not end the loop: the exception is
\* swallowed, the thread is at its loop condition again with the new
\* snapshot stored, and a later change is polled like any other.
C27_CallbackFailureSwallowed ==
    [][(Polls /\ lastPoll'.raised) =>
          /\ watch' = "top"
          /\ mtimes' = _snapshot(fs)]_vars

\* After a poll whose on_change raised, a later poll has called on_change
\* for a later change, and it returned.
C27_Witness ==
    /\ lastPoll.after_failure
    /\ lastPoll.called = 1
    /\ ~lastPoll.raised

(***************************************************************************)
(* Further claims on the Secure Module Registry.                           *)
(***************************************************************************)
\* C28: inspect_module(name) returns the sequence of the names of the
\* functions of the module when name is registered, and returns nothing,
\* without raising, when name is not in the registry.
C28_InspectModule ==
    [][lastCall'.op = "inspect_module" =>
          /\ lastCall'.outcome = "returned"
          /\ IF lastCall'.name \in DOMAIN registry
             THEN lastCall'.result = getmembers(registry[lastCall'.name].path)
             ELSE lastCall'.result = NoResult]_vars

\* C29: a registered module leaves the registry only in a call of
\* auto_discover, and auto_discover drops every entry whose module is in
\* none of the folders it scanned: after it the registry holds no name
\* without a file in the scan.
C29_NoStaleEntries ==
    [][/\ (\E n \in DOMAIN registry : n \notin DOMAIN registry')
          => lastCall'.op = "auto_discover"
       /\ lastCall'.op = "auto_discover"
          => \A n \in DOMAIN registry' : Candidates(lastCall', n) # {}]_vars

(***************************************************************************)
(* Further claims on the Encrypted Key Store.                              *)
(***************************************************************************)
\* A load on a store that is not loaded, with a passphrase to work with.
LoadsWith(op) ==
    op.op = "load" /\ ~loaded /\ ~Falsy(Resolve(op.passphrase, environ))

\* C30: a load that has to decrypt a file that was altered since set wrote
\* it, or that set wrote under another passphrase, ends with an error and
\* leaves the store not loaded with its cache as it was; a load that finds
\* no file returns without error, the store loaded and empty.
C30_DecryptFailureReported ==
    [][LoadsWith(lastOp') =>
          /\ (/\ keyfile.exists
              /\ lastSet.done
              /\ keyfile # lastSet.blob \/ ~SamePassphrase(lastOp'))
             => /\ lastOp'.outcome = "raised"
                /\ lastOp'.error # None
                /\ ~loaded'
                /\ cache' = cache
          /\ ~keyfile.exists
             => /\ lastOp'.outcome = "returned"
                /\ lastOp'.error = None
                /\ loaded'
                /\ cache' = EmptyMap]_vars

\* A load of the file as set wrote it, with another passphrase, was refused.
C30_Witness ==
    /\ lastOp.op = "load"
    /\ lastOp.outcome = "raised"
    /\ lastSet.done
    /\ keyfile = lastSet.blob
    /\ ~SamePassphrase(lastOp)
    /\ ~loaded

(***************************************************************************)
(* Claims on the event log of the registry.                                *)
(***************************************************************************)
\* log is the first part of log_: nothing of it was removed or changed.
IsPrefix(log, log_) ==
    Len(log) <= Len(log_) /\ \A i \in DOMAIN log : log_[i] = log[i]

\* C31: every register, whether it succeeds or fails, and every execute,
\* however it ends, appends one entry to the event log, and no step removes
\* or changes an entry the log holds.
C31_EveryEventLogged ==
    [][/\ IsPrefix(log_file, log_file')
       /\ lastCall'.op \in {"register", "execute"}
          => Len(log_file') = Len(log_file) + 1]_vars

(***************************************************************************)
(* Claims on the registry under concurrent callers.                        *)
(***************************************************************************)
\* The records register has stored under a name, each as it was built.
Registrations(name) ==
    {[path |-> regLog[i].path, signature |-> regLog[i].signature] :
        i \in {j \in DOMAIN regLog : regLog[j].name = name}}

\* C32: while one thread is in register or auto_discover, an execute of
\* another thread works on the path and the signature of one and the same
\* registration of the name, the one before or the one after the update,
\* never on a mixture of two; and list_modules returns whatever the other
\* thread is doing.
C32_ReaderSeesWholeRecord ==
    /\ (lastRead.op = "execute" /\ lastRead.found)
       => [path |-> lastRead.path, signature |-> lastRead.signature]
             \in Registrations(lastRead.name)
    /\ lastRead.op = "list_modules"
       => lastRead.outcome = "returned" /\ lastRead.keys \subseteq Names

\* An execute read its record while the name was registered again under
\* another path, and a list_modules ran while a register was in progress.
C32_Witness ==
    /\ lastRead.op = "execute" /\ lastRead.found /\ lastRead.raced
    /\ Cardinality(Registrations(lastRead.name)) = 2
    /\ lastRead.outcome = "returned"

(***************************************************************************)
(* Claims on the Secret Store with concurrent writers.                     *)
(***************************************************************************)
\* The text a whole blob decrypts to, read back as a cache.
Stored(blob) == Loads(_dec(StorePass, blob).plain)

\* C33: whatever the interleaving of a load of the file with the sets of one
\* or more writers, the bytes read at the store path are one whole blob, as
\* one _save produced it.
C33_ReadsWholeBlob == fetched.read => Whole(fetched.bytes)

\* C37: when two concurrent sets have both returned, the file at path is one
\* whole blob and decrypts to the cache in memory, with the update of each.
C37_FileMatchesCache ==
    (\A w \in Setters : setters[w].pc = "done" /\ setters[w].outcome = "returned")
    => /\ Whole(FileAt(links.file))
       /\ Stored(FileAt(links.file)) = mem

(***************************************************************************)
(* Claims on the Event Bus and its lock.                                   *)
(***************************************************************************)
\* C34: publish holds the lock of the bus in no state in which one of its
\* handlers runs, and no call of the publishing thread waits for the lock
\* while another call of the same thread holds it, so that a handler which
\* calls subscribe or publish on the bus is not blocked by the publish that
\* called it; the handlers a publish calls are those subscribed to the topic
\* when it took its copy, so a handler subscribed during a publish is not
\* called by that publish and is called by every publish that begins later.
C34_PublishReleasesLock ==
    /\ \A i \in DOMAIN frames :
          /\ frames[i].pc = "in_handler" => lock # i
          /\ frames[i].pc = "acquire" => lock \notin 1..Len(frames)
          /\ frames[i].pc \in {"calling", "in_handler"}
             => frames[i].handlers = SubscribedTo(frames[i].topic, frames[i].at)
    /\ \A n \in DOMAIN finished :
          finished[n].error = None
          /\ finished[n].called = SubscribedTo(finished[n].topic, finished[n].at)

\* A handler subscribed another one to the topic from inside a publish:
\* that publish returned without calling it, and the next publish on the
\* topic called it.
C34_Witness ==
    /\ Len(finished) = 2
    /\ finished[1].topic = "registry/updated"
    /\ finished[2].topic = "registry/updated"
    /\ finished[1].called = <<"on_update">>
    /\ finished[2].called = <<"on_update", "on_beat">>
    /\ finished[1].at = 1 /\ finished[2].at = 2

(***************************************************************************)
(* Claims on the stop of the three loops.                                  *)
(***************************************************************************)
\* The callable the scheduler is in does not return within the time of the
\* model.
NeverReturns ==
    /\ loop.pc = "call"
    /\ clock = MaxClock
    /\ clock < jobObjs[loop.job].began + Takes(jobObjs[loop.job].fn)

\* C35: once stop has set the flag, the loop of the scheduler and the loop
\* of the watcher end, and every worker of the task queue ends, provided the
\* callable that is running returns; none of them passes its loop condition
\* again, so each ends within the tick, the poll or the task it is in.
C35_LoopsStop ==
    /\ [](sched_stop => <>(loop.pc \in {"new", "exited", "dead"} \/ NeverReturns))
    /\ [](watch_stop => <>(watch \in {"new", "exited", "dead"}))
    /\ [](shutdown_flag => <>(\A w \in Workers : threads[w].pc \in {"exited", "dead"}))
    /\ [][/\ (sched_stop /\ loop.pc = "top") => loop'.pc \in {"top", "exited"}
          /\ (watch_stop /\ watch = "top") => watch' \in {"top", "exited"}
          /\ \A w \in Workers :
                (shutdown_flag /\ threads[w].pc = "check")
                => threads'[w].pc \in {"check", "exited"}]_vars

\* Each loop has ended after a stop that found it at work: the scheduler
\* after a callable that was running when the flag was set, the watcher
\* after a poll, a worker after a task.
C35_Witness ==
    \/ /\ sched_stop /\ loop.pc = "exited"
       /\ \E i \in DOMAIN jobObjs : jobObjs[i].fired
    \/ /\ watch_stop /\ watch = "exited" /\ lastPoll.called > 0
    \/ /\ shutdown_flag /\ executed # <<>>
       /\ \A w \in Workers : threads[w].pc = "exited"

(***************************************************************************)
(* Claims on the Secret Store: what set keeps.                             *)
(***************************************************************************)
\* The secrets the file holds for a passphrase that decrypts it.
Persisted(passphrase, blob) == Loads(_dec(passphrase, blob).plain)

Decrypts(passphrase, blob) ==
    /\ blob.exists
    /\ _dec(passphrase, blob).error = None
    /\ _dec(passphrase, blob).plain.wellformed

\* C36: a set(name, value, P) that returns on a store whose file holds
\* entries under the passphrase P leaves a file that holds name -> value and
\* every entry the file held before, whatever calls of load, get, items and
\* set came before it, a load or get without any passphrase included.
C36_SetKeepsPersisted ==
    [][LET p == Resolve(lastOp'.passphrase, environ)
       IN  (/\ lastOp'.op = "set"
            /\ lastOp'.outcome = "returned"
            /\ Decrypts(p, keyfile))
           => /\ Decrypts(p, keyfile')
              /\ lastOp'.name \in DOMAIN Persisted(p, keyfile')
              /\ Persisted(p, keyfile')[lastOp'.name] = lastOp'.value
              /\ \A n \in DOMAIN Persisted(p, keyfile) \ {lastOp'.name} :
                    /\ n \in DOMAIN Persisted(p, keyfile')
                    /\ Persisted(p, keyfile')[n] = Persisted(p, keyfile)[n]
      ]_vars

(***************************************************************************)
(* Claims on the Scheduler: jobs removed or replaced.                      *)
(***************************************************************************)
\* The jobs the dict holds.
Held == {jobs[i].id : i \in DOMAIN jobs}

\* C38: the loop calls the callable of no job that the dict does not hold:
\* once remove(name) has returned the removed job is not called again, and
\* once add has replaced the job of a name the old one is not called again,
\* however these calls fall between the steps of a tick.
C38_RemovedNeverFires ==
    [][(loop'.pc = "call" /\ loop.pc # "call") => loop'.job \in Held]_vars

(***************************************************************************)
(* Claims on the Source Watcher: the stop.                                 *)
(***************************************************************************)
\* C39: once stop has set the flag, no poll calls on_change, also when a
\* file changed during the sleep that was in progress.
C39_NoCallAfterStop ==
    [][(watch = "sleep" /\ watch' # "sleep" /\ lastPoll'.called > 0)
       => ~watch_stop]_vars

(***************************************************************************)
(* Claims on the runtime's reaction to a source change.                    *)
(***************************************************************************)
\* on_code_change is running and its publish is still to come.
PublishPending ==
    /\ hook.at # 0
    /\ \E i \in hook.at..Len(on_code_change) : on_code_change[i] = "publish"

\* C40: on a detected source change the registry is re-discovered first and
\* the registry/updated event is published only after that, so the module
\* list of every such event is the content of the registry after that
\* re-discovery; and every change the watcher detects gives one publish of
\* registry/updated, except when the re-discovery itself raised.
C40_PublishAfterRediscovery ==
    /\ lastEvent.topic = "registry/updated" =>
          /\ lastEvent.discovered
          /\ Statement # "publish" => lastEvent.modules = list_modules(registry)
    /\ hook.detected = hook.published + hook.failed
                          + (IF PublishPending THEN 1 ELSE 0)

\* Two changes were detected: the re-discovery of one raised and gave no
\* event, the other gave an event that lists the modules found.
C40_Witness ==
    /\ hook.at = 0
    /\ hook.published = 1
    /\ hook.failed = 1
    /\ lastEvent.topic = "registry/updated"
    /\ lastEvent.modules # {}
    /\ lastEvent.modules = list_modules(registry)

====
